---------------------------- MODULE Spec2Model ----------------------------
(***************************************************************************)
(* A model of image_generation/render_sc_images_drop.py: the paired scene  *)
(* generator (main, render_default_scene, render_semantic_change,          *)
(* add_random_objects, apply_change, compute_all_relationships,            *)
(* check_visibility).                                                      *)
(*                                                                         *)
(* Numbers.  Lengths are integers in units of 1/20 of a scene unit, so     *)
(* the placement square [-3, 3] is [-60, 60] and the sizes 0.7 / 0.35 are  *)
(* 14 / 7.  A direction vector is an integer vector of length Unit (the    *)
(* value that stands for 1.0), so a dot product with a direction is        *)
(* compared with Unit times the length it is compared with in the code.    *)
(* Python objects that are shared by reference (the object dicts) live in  *)
(* heap and are referred to by their ids.                                  *)
(***************************************************************************)
EXTENDS Integers, Sequences, FiniteSets, TLC

VARIABLES
  args,                        \* the parsed command line (argparse namespace)
  properties,                  \* the content of args.properties_json
  sc_change_type,              \* the change_type main passes for the semantic variant
  pc,                          \* the position of the program
  i,                           \* main: loop counter
  num_objects,                 \* main: random.randint(min_objects, max_objects)
  files,                       \* the output files that exist
  all_scene_paths,             \* main: the three aggregate lists
  all_sc_scene_paths,
  all_nsc_scene_paths,
  default_config,              \* config of render_default_scene / main's default_config
  nonsemantic_change_success,  \* main
  semantic_change_success,     \* main
  scene,                       \* which scene is being produced: default, nonsemantic, semantic
  scene_struct,                \* the scene structure of the scene being produced
  default_dump,                \* what json.dump wrote into the base scene file of this attempt
  camera,                      \* bpy.data.objects['Camera'].location, relative to the base file
  lamps,                       \* the locations of Lamp_Key, Lamp_Back, Lamp_Fill, likewise
  bpy_objects,                 \* the objects instantiated in the renderer's scene
  heap,                        \* the object dicts, by id
  objects,                     \* add_random_objects: the list being built (ids)
  positions,                   \* add_random_objects: (x, y, r) of the placed objects
  size,                        \* the size chosen for the object being placed / added
  num_tries,                   \* the retry counter of the placement loop in progress
  samples,                     \* candidate positions sampled by the loop in progress
  change_type,                 \* apply_change: its parameter
  new_objects,                 \* apply_change: the list being built (ids)
  other_positions,             \* apply_change ('add'): positions of the base objects
  ret,                         \* what apply_change returned
  depth,                       \* add_random_objects: the recursive calls that are open
  checked,                     \* check_visibility: its parameter blender_objects
  all_visible,                 \* what check_visibility returned to its caller
  render_args,                 \* bpy.context.scene.render: filepath, engine, use_antialiasing
  layers,                      \* the layer of Lamp_Key, Lamp_Fill, Lamp_Back and Ground
  cached,                      \* render_shadeless: old_filepath, old_engine, ..., old_materials
  color_count,                 \* check_visibility: the tally of the shadeless render
  new_name,                    \* apply_change: new_color_name / new_mat_name, as the
                               \* resampling loop drew it last when run step by step
  input_files,                 \* caption scripts: the content of the files of input_dir,
                               \* in the order os.listdir gave them
  filename,                    \* caption scripts: how many files the for loop has read
  img_to_caps,                 \* merge_captions, collect_captions: the map being built
  count,                       \* merge_captions: the running count of merged entries
  split,                       \* collect_captions: the split of the first caption seen
  captions,                    \* generate_split: the content of CAP_JSON
  indices,                     \* generate_split: the image indices of the keys
  train_idx,                   \* generate_split: the three slices of indices
  val_idx,
  test_idx,
  output                       \* caption scripts: whether the output file was written,
                               \* and what json.dump wrote into it

vars == << args, properties, sc_change_type, pc, i, num_objects, files,
           all_scene_paths, all_sc_scene_paths, all_nsc_scene_paths,
           default_config, nonsemantic_change_success, semantic_change_success,
           scene, scene_struct, default_dump, camera, lamps, bpy_objects, heap,
           objects, positions, size, num_tries, samples, change_type,
           new_objects, other_positions, ret, depth, checked, all_visible,
           render_args, layers, cached, color_count, new_name,
           input_files, filename, img_to_caps, count, split,
           captions, indices, train_idx, val_idx, test_idx, output >>

\* the state of merge_captions and of collect_captions
merge_vars == << input_files, filename, img_to_caps, count, split >>

\* the state of generate_split
split_vars == << captions, indices, train_idx, val_idx, test_idx >>

\* the state of the caption scripts
caption_vars == << merge_vars, split_vars, output >>

\* the state of the image generation script
render_vars == << args, properties, sc_change_type, i, num_objects, files,
                  all_scene_paths, all_sc_scene_paths, all_nsc_scene_paths,
                  default_config, nonsemantic_change_success, semantic_change_success,
                  scene, scene_struct, default_dump, camera, lamps, bpy_objects, heap,
                  objects, positions, size, num_tries, samples, change_type,
                  new_objects, other_positions, ret, depth, checked, all_visible,
                  render_args, layers, cached, color_count, new_name >>

\* the state only render_shadeless and check_visibility touch
shadeless_vars == << layers, cached, color_count >>

\* the output file of a caption script before it is written
NoOutput == [ written |-> FALSE, content |-> << >> ]

\* merge_captions and collect_captions have not run
NoMerge ==
  /\ input_files = << >>
  /\ filename = 0
  /\ img_to_caps = << >>
  /\ count = 0
  /\ split = "None"

\* generate_split has not run
NoSplit ==
  /\ captions = << >>
  /\ indices = << >>
  /\ train_idx = << >>
  /\ val_idx = << >>
  /\ test_idx = << >>

\* no caption script has run
NoCaptionScript ==
  /\ NoMerge
  /\ NoSplit
  /\ output = NoOutput

-----------------------------------------------------------------------------
(* Bounds of the model *)

MaxObjects == 2
MaxRetries == 2
NumImages == 2
\* the recursive calls of add_random_objects the interpreter allows
\* (sys.getrecursionlimit(), 1000 by default), scaled down
RecursionLimit == 2
\* the times apply_change is applied to its own output
MaxChanges == 2
\* the files of a caption script's input_dir
MaxFiles == 2
\* the images of the caption map generate_split reads, apart from stray keys
MaxImages == 20

(* Numbers of the program *)

\* the length of a normalized direction vector (1.0)
Unit == 5
\* for i in range(3): the axes of a location
NumAxes == 3
\* the z coordinate apply_change records for an added object
AddedZ == -1
\* compute_all_relationships(scene_struct, eps=0.2): 0.2 in length units
Eps == 4

Axes == 1..NumAxes

-----------------------------------------------------------------------------
(* Sequences *)

SeqSum(s) == LET RECURSIVE Sum(_)
                 Sum(k) == IF k = 0 THEN 0 ELSE s[k] + Sum(k - 1)
             IN Sum(Len(s))

\* the elements of a finite set of integers in increasing order: sorted(list(S))
RECURSIVE sorted(_)
sorted(S) == IF S = {} THEN << >>
             ELSE LET m == CHOOSE x \in S : \A y \in S : x <= y
                  IN << m >> \o sorted(S \ {m})

Range(s) == { s[k] : k \in DOMAIN s }

\* seq without its element at position k (1-based)
RemoveAt(s, k) == [ j \in 1..(Len(s) - 1) |-> IF j < k THEN s[j] ELSE s[j + 1] ]

-----------------------------------------------------------------------------
(* The inputs: command lines and property files *)

ChangeTypes == { "color", "material", "shape", "drop", "add", "switch", "random", "same" }

\* parser defaults, in the model's units; the configurations below vary them
DefaultArgs ==
  [ min_objects |-> 1, max_objects |-> MaxObjects,
    min_dist |-> 5, margin |-> 12, min_pixels_per_object |-> 2,
    max_retries |-> MaxRetries, start_idx |-> 0, num_images |-> 1,
    save_blendfiles |-> 0,
    camera_jitter |-> 0, key_light_jitter |-> 1, fill_light_jitter |-> 1,
    back_light_jitter |-> 1 ]

\* properties.json: colors (names), materials and shapes (pairs asset, name as
\* material_mapping and object_mapping hold them), sizes (pairs name, radius);
\* combos is the content of args.shape_color_combos_json (given = FALSE: None)
PlainProperties ==
  [ colors |-> { "red" },
    materials |-> { << "Rubber", "rubber" >> },
    shapes |-> { << "Sphere", "sphere" >> },
    sizes |-> { << "small", 7 >> },
    combos |-> [ given |-> FALSE, items |-> {} ] ]

RichProperties ==
  [ colors |-> { "red", "blue" },
    materials |-> { << "Rubber", "rubber" >>, << "MyMetal", "metal" >> },
    shapes |-> { << "Cube", "cube" >>, << "Sphere", "sphere" >> },
    sizes |-> { << "large", 14 >>, << "small", 7 >> },
    combos |-> [ given |-> FALSE, items |-> {} ] ]

\* a palette of three colors, everything else as plain as can be
PaletteProperties == [ PlainProperties EXCEPT !.colors = { "red", "blue", "green" } ]

\* a material table in which two names stand for the same material file
TwinProperties ==
  [ PlainProperties EXCEPT !.materials = { << "Rubber", "rubber" >>, << "Rubber", "matte" >> } ]

\* the values random.uniform(-3, 3) is sampled at
Coords == { 0, 20 }

\* the values 360.0 * random.random() is sampled at
Thetas == { 90 }

\* the values rand(L) = 2.0 * L * (random.random() - 0.5) is sampled at: the
\* points -L, -L + 2, ... of [-L, L)
rand(L) == { 2 * k - L : k \in 0..(L - 1) }


-----------------------------------------------------------------------------
(* The renderer (bpy and utils.py) *)

Zero3 == [ k \in Axes |-> 0 ]

Neg(v) == [ k \in DOMAIN v |-> 0 - v[k] ]

\* camera.matrix_world.to_quaternion() * Vector(...), projected on the ground
\* plane and normalized.  The camera of the base file looks at the middle of
\* the scene, so its orientation follows its location: two orientations are
\* told apart, by the camera's displacement along the first axis.
plane_behind(cam) == IF cam[1] < 0 THEN << 3, 4, 0 >> ELSE << 0, Unit, 0 >>

plane_left(cam) == IF cam[1] < 0 THEN << -4, 3, 0 >> ELSE << 0 - Unit, 0, 0 >>

plane_up(cam) == << 0, 0, Unit >>

\* faulty directions in which 'right' and 'front' are not the negated 'left'
\* and 'behind'
directions_of_same_side(cam) ==
  [ behind |-> plane_behind(cam), front |-> plane_behind(cam),
    left |-> plane_left(cam), right |-> plane_left(cam),
    above |-> plane_up(cam), below |-> Neg(plane_up(cam)) ]

\* scene_struct['directions'], as both render functions fill it
directions_of(cam) ==
  [ behind |-> plane_behind(cam), front |-> Neg(plane_behind(cam)),
    left |-> plane_left(cam), right |-> Neg(plane_left(cam)),
    above |-> plane_up(cam), below |-> Neg(plane_up(cam)) ]

\* utils.add_object(shape_dir, name, r, (x, y), theta) followed by
\* utils.add_material(mat_name, Color=rgba): the new object of the scene
add_object(name, r, x, y, theta, mat_name, color_name) ==
  [ name |-> name, r |-> r, location |-> << x, y, r >>, theta |-> theta,
    material |-> mat_name, color |-> color_name ]

\* utils.get_camera_coords(camera, location): the projection of a location
\* on the image, which moves with the camera
get_camera_coords(cam, location) ==
  << location[1] - cam[1], location[2] - cam[2], location[3] - cam[3] >>

\* utils.delete_object(obj) for every obj of blender_objects: what is left
\* of the objects of the scene
delete_objects(scene_objects, blender_objects) ==
  SelectSeq(scene_objects, LAMBDA obj : obj \notin Range(blender_objects))

\* the pixel tallies a shadeless render of n objects may give: the number of
\* pixels of each object's flat colour (0: the colour is not in the image)
\* and of the background
PixelCounts == { 0, 1, 3 }

Renders(n) == [ pixels : [ 1..n -> PixelCounts ], background : PixelCounts ]

-----------------------------------------------------------------------------
(* The property tables *)

obj_names_of(props, obj_name_out) ==
  { p[1] : p \in { q \in props.shapes : q[2] = obj_name_out } }

\* [k for k, v in object_mapping if v == obj_name_out][0]
obj_name_of(props, obj_name_out) ==
  CHOOSE k \in obj_names_of(props, obj_name_out) : TRUE

\* [v for k, v in size_mapping if k == size_name][0]
size_of(props, size_name) ==
  LET rs == { p[2] : p \in { q \in props.sizes : q[1] = size_name } }
  IN CHOOSE r \in rs : TRUE

\* [k for k, v in material_mapping if v == mat_name_out][0]
mat_name_of(props, mat_name_out) ==
  LET ks == { p[1] : p \in { q \in props.materials : q[2] = mat_name_out } }
  IN CHOOSE k \in ks : TRUE

\* r /= math.sqrt(2), on the integers (5/7 for 1/sqrt(2))
cube_adjust(r) == (r * 5) \div 7

\* the radius render_object and the 'add' branch derive for an object dict
radius_of(props, obj) ==
  LET r == size_of(props, obj.size)
  IN IF obj_name_of(props, obj.shape) = "Cube" THEN cube_adjust(r) ELSE r

\* the pairs (asset name, shape name, color name) the code may choose for a
\* new object: from object_mapping and the palette, or from shape_color_combos
shape_color_choices(props) ==
  IF ~props.combos.given
  THEN { << p[1], p[2], c >> : p \in props.shapes, c \in props.colors }
  ELSE { << obj_name_of(props, sc[1]), sc[1], sc[2] >> :
           sc \in UNION { { << it[1], c >> : c \in it[2] } : it \in props.combos.items } }

-----------------------------------------------------------------------------
(* Geometry checks *)

\* a faulty distance test that forgets the radii
dist_too_small_centers(dx, dy, r, rr, min_dist) ==
  dx * dx + dy * dy < min_dist * min_dist

\* dist - r - rr < min_dist, with dist = sqrt(dx * dx + dy * dy)
dist_too_small(dx, dy, r, rr, min_dist) ==
  LET s == min_dist + r + rr
  IN s > 0 /\ dx * dx + dy * dy < s * s

\* margin = dx * direction_vec[0] + dy * direction_vec[1]; 0 < margin < args.margin
margin_broken(dx, dy, direction_vec, margin) ==
  LET m == dx * direction_vec[1] + dy * direction_vec[2]
  IN 0 < m /\ m < margin * Unit

HorizontalNames == { "left", "right", "front", "behind" }

\* add_random_objects: dists_good and margins_good for the candidate (x, y)
\* of radius r against the positions placed so far
dists_margins_good(x, y, r, placed, directions, a) ==
  \A k \in DOMAIN placed :
     LET dx == x - placed[k][1]
         dy == y - placed[k][2]
     IN /\ ~dist_too_small(dx, dy, r, placed[k][3], a.min_dist)
        /\ \A direction_name \in HorizontalNames :
              ~margin_broken(dx, dy, directions[direction_name], a.margin)

\* a faulty check that looks at the distances only
check_dist_margin_dists_only(this_position, others, directions, a) ==
  \A k \in DOMAIN others :
     LET dx == this_position[1] - others[k][1]
         dy == this_position[2] - others[k][2]
     IN ~dist_too_small(dx, dy, this_position[3], others[k][3], a.min_dist)

\* apply_change.check_dist_margin(this_position, other_positions)
check_dist_margin(this_position, others, directions, a) ==
  \A k \in DOMAIN others :
     LET dx == this_position[1] - others[k][1]
         dy == this_position[2] - others[k][2]
     IN /\ ~dist_too_small(dx, dy, this_position[3], others[k][3], a.min_dist)
        /\ \A direction_name \in HorizontalNames :
              ~margin_broken(dx, dy, directions[direction_name], a.margin)

\* check_visibility(blender_objects, min_pixels_per_object) on the tally
\* counts (color_count) of the shadeless render
check_visibility(n, min_pixels_per_object, counts) ==
  LET seen == { k \in 1..n : counts.pixels[k] > 0 }
      len == Cardinality(seen) + (IF counts.background > 0 THEN 1 ELSE 0)
  IN IF len # n + 1 THEN FALSE
     ELSE /\ \A k \in seen : ~(counts.pixels[k] < min_pixels_per_object)
          /\ ~(counts.background < min_pixels_per_object)

\* a faulty relation that does not skip the object itself and lets the dot
\* product be as low as -eps
compute_all_relationships_reflexive(directions, objs) ==
  [ name \in HorizontalNames |->
      [ i1 \in DOMAIN objs |->
          sorted({ j - 1 : j \in
            { j2 \in DOMAIN objs :
                LET diff == [ k \in Axes |-> objs[j2].coords_3d[k] - objs[i1].coords_3d[k] ]
                    dot == SeqSum([ k \in Axes |-> diff[k] * directions[name][k] ])
                IN dot > 0 - Eps * Unit } }) ] ]

\* a faulty relation that takes the difference the other way round
compute_all_relationships_swapped(directions, objs) ==
  [ name \in HorizontalNames |->
      [ i1 \in DOMAIN objs |->
          sorted({ j - 1 : j \in
            { j2 \in DOMAIN objs :
                /\ objs[i1] # objs[j2]
                /\ LET diff == [ k \in Axes |-> objs[i1].coords_3d[k] - objs[j2].coords_3d[k] ]
                       dot == SeqSum([ k \in Axes |-> diff[k] * directions[name][k] ])
                   IN dot > Eps * Unit } }) ] ]

\* compute_all_relationships(scene_struct): objs are the object dicts of
\* scene_struct['objects'], the indices in the lists are Python's (from 0)
compute_all_relationships(directions, objs) ==
  [ name \in HorizontalNames |->
      [ i1 \in DOMAIN objs |->
          sorted({ j - 1 : j \in
            { j2 \in DOMAIN objs :
                /\ objs[i1] # objs[j2]
                /\ LET diff == [ k \in Axes |-> objs[j2].coords_3d[k] - objs[i1].coords_3d[k] ]
                       dot == SeqSum([ k \in Axes |-> diff[k] * directions[name][k] ])
                   IN dot > Eps * Unit } }) ] ]

-----------------------------------------------------------------------------
(* Object dicts and the heap *)

Deref(h, ids) == [ k \in DOMAIN ids |-> h[ids[k]] ]

\* a faulty copy that hands back the dict itself
deepcopy_alias(h, id) == [ heap |-> h, ref |-> id ]

\* copy.deepcopy(obj): a new dict with the value of obj
deepcopy(h, id) == [ heap |-> Append(h, h[id]), ref |-> Len(h) + 1 ]

\* new_obj = copy.deepcopy(obj) for every obj of a list, in order
RECURSIVE copy_all(_, _)
copy_all(h, ids) ==
  IF ids = << >> THEN [ heap |-> h, refs |-> << >> ]
  ELSE LET c == deepcopy(h, Head(ids))
           rest == copy_all(c.heap, Tail(ids))
       IN [ heap |-> rest.heap, refs |-> << c.ref >> \o rest.refs ]

\* the fields of an object dict other than pixel_coords
Attributes(obj) == [ shape |-> obj.shape, size |-> obj.size, material |-> obj.material,
                     color |-> obj.color, rotation |-> obj.rotation,
                     coords_3d |-> obj.coords_3d ]

-----------------------------------------------------------------------------
(* Files *)

\* <dir>/<prefix>_<split>_<6-digit index>.<ext> of a scene category
Path(category, index, ext) == [ category |-> category, index |-> index, ext |-> ext ]

\* args.output_scene_file, args.semantic_output_scene_file, ...
OutputSceneFile(category) == [ category |-> category, index |-> -1, ext |-> "json" ]

Categories == { "default", "nonsemantic", "semantic" }

\* the blend path of a scene: None unless args.save_blendfiles == 1
BlendPaths(a, category, index) ==
  IF a.save_blendfiles = 1 THEN { Path(category, index, "blend") } ELSE {}

\* the files the final part of a render function writes for a scene
SceneFiles(a, category, index) ==
  { Path(category, index, "png"), Path(category, index, "json") }
    \cup BlendPaths(a, category, index)

-----------------------------------------------------------------------------
(* Initial state *)

NoDirections == [ name \in { "behind", "front", "left", "right", "above", "below" } |-> Zero3 ]

NoRelationships == [ name \in HorizontalNames |-> << >> ]

NewSceneStruct(category, index, cam) ==
  [ split |-> "default", image_index |-> index,
    image_filename |-> Path(category, index, "png"),
    objects |-> << >>, directions |-> directions_of(cam),
    relationships |-> NoRelationships ]

NoSceneStruct ==
  [ split |-> "default", image_index |-> 0,
    image_filename |-> Path("default", 0, "png"),
    objects |-> << >>, directions |-> NoDirections,
    relationships |-> NoRelationships ]

NoConfig == [ camera_jitters |-> << >>, key_light_jitters |-> << >>,
              back_light_jitters |-> << >>, fill_light_jitters |-> << >>,
              objects |-> << >> ]

HomeLamps == [ Lamp_Key |-> Zero3, Lamp_Back |-> Zero3, Lamp_Fill |-> Zero3 ]

\* the render settings, layers and tally before any scene is set up
BaseRenderArgs ==
  [ filepath |-> Path("none", 0, "png"), engine |-> "BLENDER_RENDER", use_antialiasing |-> TRUE ]

\* lights and ground are on layer 0 in the base file (render_shadeless moves
\* them "back to layer 0")
HomeLayers == [ Lamp_Key |-> 0, Lamp_Fill |-> 0, Lamp_Back |-> 0, Ground |-> 0 ]

NoCache == [ old_filepath |-> Path("none", 0, "png"), old_engine |-> "none",
             old_use_antialiasing |-> FALSE, old_materials |-> << >> ]

NoCount == [ pixels |-> << >>, background |-> 0 ]

\* render_args.engine = "CYCLES"; render_args.filepath = output_image
scene_render_args(ra, category, index) ==
  [ ra EXCEPT !.engine = "CYCLES", !.filepath = Path(category, index, "png") ]

\* apply_change has not returned / returned None, None, False / returned a list
NoRet == [ returned |-> FALSE, is_none |-> TRUE, objects |-> << >>, success |-> FALSE ]

\* the command lines and property files the model runs
Configs ==
  { \* the loop of main over several indices, with and without blend files
    << [ DefaultArgs EXCEPT !.num_images = NumImages, !.max_objects = 1 ], PlainProperties >>,
    << [ DefaultArgs EXCEPT !.num_images = NumImages, !.max_objects = 1,
                            !.save_blendfiles = 1, !.start_idx = 3 ], PlainProperties >>,
    \* scenes of all shapes, sizes, colors and materials, the camera jittered
    << [ DefaultArgs EXCEPT !.camera_jitter = 1 ], RichProperties >>,
    \* a camera jitter that takes several values
    << [ DefaultArgs EXCEPT !.camera_jitter = 2 ], PlainProperties >>,
    \* scenes that may have no object, and no retry
    << [ DefaultArgs EXCEPT !.min_objects = 0, !.max_objects = 0, !.max_retries = 0 ],
       PlainProperties >>,
    << [ DefaultArgs EXCEPT !.min_objects = 0, !.max_objects = 1, !.max_retries = 1 ],
       PlainProperties >>,
    \* a light that is not jittered
    << [ DefaultArgs EXCEPT !.max_objects = 1, !.back_light_jitter = 0 ], PlainProperties >> }

InitWith(types) ==
  /\ \E c \in Configs : args = c[1] /\ properties = c[2]
  /\ sc_change_type \in types
  /\ pc = "main"
  /\ i = 0
  /\ num_objects = 0
  /\ files = {}
  /\ all_scene_paths = << >>
  /\ all_sc_scene_paths = << >>
  /\ all_nsc_scene_paths = << >>
  /\ default_config = NoConfig
  /\ nonsemantic_change_success = FALSE
  /\ semantic_change_success = FALSE
  /\ scene = "none"
  /\ scene_struct = NoSceneStruct
  /\ default_dump = NoSceneStruct
  /\ camera = Zero3
  /\ lamps = HomeLamps
  /\ bpy_objects = << >>
  /\ heap = << >>
  /\ objects = << >>
  /\ positions = << >>
  /\ size = << >>
  /\ num_tries = 0
  /\ samples = 0
  /\ change_type = "none"
  /\ new_objects = << >>
  /\ other_positions = << >>
  /\ ret = NoRet
  /\ depth = 0
  /\ checked = << >>
  /\ all_visible = FALSE
  /\ render_args = BaseRenderArgs
  /\ layers = HomeLayers
  /\ cached = NoCache
  /\ color_count = NoCount
  /\ new_name = "none"
  /\ NoCaptionScript

\* main as written: the semantic variant is a 'drop' (line 289)
Init == InitWith({ "drop" })

-----------------------------------------------------------------------------
(* render_default_scene, up to its call of add_random_objects *)

\* the list a jitter loop appends its three draws to; empty when the
\* magnitude is not > 0.  The three draws of a loop are sampled together:
\* the n-th list takes the n-th, (n+1)-th and (n+2)-th value of rand(L),
\* cyclically, so that every axis takes every value and the axes differ.
jitters(L) ==
  IF L > 0
  THEN { [ k \in Axes |-> 2 * ((n + k - 1) % L) - L ] : n \in 0..(L - 1) }
  ELSE { << >> }

\* location[i] += jitter[i], from the location of the base file
moved(L, jitter) == IF L > 0 THEN [ k \in Axes |-> jitter[k] ] ELSE Zero3

\* main's loop head and render_default_scene down to the lamp jitter
render_default_scene_setup ==
  /\ pc = "main"
  /\ i < args.num_images
  /\ \E n \in args.min_objects..args.max_objects,
        cj \in jitters(args.camera_jitter),
        kj \in jitters(args.key_light_jitter),
        bj \in jitters(args.back_light_jitter),
        fj \in jitters(args.fill_light_jitter) :
       /\ num_objects' = n
       /\ camera' = moved(args.camera_jitter, cj)
       /\ lamps' = [ Lamp_Key |-> moved(args.key_light_jitter, kj),
                     Lamp_Back |-> moved(args.back_light_jitter, bj),
                     Lamp_Fill |-> moved(args.fill_light_jitter, fj) ]
       /\ default_config' = [ camera_jitters |-> cj, key_light_jitters |-> kj,
                              back_light_jitters |-> bj, fill_light_jitters |-> fj,
                              objects |-> << >> ]
       /\ scene_struct' = NewSceneStruct("default", i + args.start_idx,
                                         moved(args.camera_jitter, cj))
  /\ scene' = "default"
  /\ pc' = "add_random_objects"
  /\ bpy_objects' = << >>
  /\ heap' = << >>
  /\ objects' = << >>
  /\ positions' = << >>
  /\ size' = << >>
  /\ num_tries' = 0
  /\ samples' = 0
  \* not assigned yet in this iteration
  /\ nonsemantic_change_success' = FALSE
  /\ semantic_change_success' = FALSE
  /\ default_dump' = NoSceneStruct
  /\ change_type' = "none"
  /\ new_objects' = << >>
  /\ other_positions' = << >>
  /\ ret' = NoRet
  /\ UNCHANGED << args, properties, sc_change_type, i, files, all_scene_paths,
                  all_sc_scene_paths, all_nsc_scene_paths >>
  \* open_mainfile loads the base file; render_args.engine and .filepath are set
  /\ render_args' = scene_render_args(BaseRenderArgs, "default", i + args.start_idx)
  /\ depth' = 0
  /\ checked' = << >>
  /\ all_visible' = FALSE
  /\ UNCHANGED << shadeless_vars, new_name, caption_vars >>

-----------------------------------------------------------------------------
(* add_random_objects *)

\* size_name, r = random.choice(size_mapping); num_tries = 0
add_random_objects_size ==
  /\ pc = "add_random_objects"
  /\ Len(objects) < num_objects
  /\ size = << >>
  /\ \E sz \in properties.sizes : size' = sz
  /\ num_tries' = 0
  /\ samples' = 0
  /\ UNCHANGED << args, properties, sc_change_type, pc, i, num_objects, files,
                  all_scene_paths, all_sc_scene_paths, all_nsc_scene_paths,
                  default_config, nonsemantic_change_success, semantic_change_success,
                  scene, scene_struct, default_dump, camera, lamps, bpy_objects, heap,
                  objects, positions, change_type, new_objects, other_positions, ret >>
  /\ UNCHANGED << depth, checked, all_visible, render_args, shadeless_vars, new_name, caption_vars >>

\* the object dict and the renderer object of a placed object
placed_object(x, y, sc, theta, mat, cam) ==
  LET r == IF sc[1] = "Cube" THEN cube_adjust(size[2]) ELSE size[2]
      obj == add_object(sc[1], r, x, y, theta, mat[1], sc[3])
  IN [ blender |-> obj,
       position |-> << x, y, r >>,
       dict |-> [ shape |-> sc[2], size |-> size[1], material |-> mat[2],
                  coords_3d |-> obj.location, rotation |-> theta,
                  pixel_coords |-> get_camera_coords(cam, obj.location),
                  color |-> sc[3] ] ]

\* one pass of the while loop that is not the give-up: a candidate position
\* is drawn and checked; a good one places the object
add_random_objects_try ==
  /\ pc = "add_random_objects"
  /\ size # << >>
  /\ ~(num_tries + 1 > args.max_retries)
  /\ \E x \in Coords, y \in Coords :
       IF dists_margins_good(x, y, size[2], positions, scene_struct.directions, args)
       THEN \E sc \in shape_color_choices(properties), theta \in Thetas,
               mat \in properties.materials :
              LET p == placed_object(x, y, sc, theta, mat, camera)
              IN /\ bpy_objects' = Append(bpy_objects, p.blender)
                 /\ positions' = Append(positions, p.position)
                 /\ heap' = Append(heap, p.dict)
                 /\ objects' = Append(objects, Len(heap) + 1)
                 /\ size' = << >>
                 /\ num_tries' = 0
                 /\ samples' = 0
       ELSE /\ num_tries' = num_tries + 1
            /\ samples' = samples + 1
            /\ UNCHANGED << bpy_objects, positions, heap, objects, size >>
  /\ UNCHANGED << args, properties, sc_change_type, pc, i, num_objects, files,
                  all_scene_paths, all_sc_scene_paths, all_nsc_scene_paths,
                  default_config, nonsemantic_change_success, semantic_change_success,
                  scene, scene_struct, default_dump, camera, lamps, change_type,
                  new_objects, other_positions, ret >>
  /\ UNCHANGED << depth, checked, all_visible, render_args, shadeless_vars, new_name, caption_vars >>

\* a faulty restart that leaves the objects of the attempt in the scene
restart_placement_keeps ==
  /\ bpy_objects' = bpy_objects
  /\ heap' = << >>
  /\ objects' = << >>
  /\ positions' = << >>
  /\ size' = << >>
  /\ num_tries' = 0
  /\ samples' = 0
  /\ checked' = << >>
  /\ all_visible' = FALSE
  /\ IF depth < RecursionLimit
     THEN depth' = depth + 1 /\ pc' = "add_random_objects"
     ELSE depth' = depth /\ pc' = "crashed"

\* a faulty restart that goes on with the lists of the discarded attempt
restart_placement_keeps_lists ==
  /\ bpy_objects' = delete_objects(bpy_objects, bpy_objects)
  /\ UNCHANGED << heap, objects, positions >>
  /\ size' = << >>
  /\ num_tries' = 0
  /\ samples' = 0
  /\ checked' = << >>
  /\ all_visible' = FALSE
  /\ IF depth < RecursionLimit
     THEN depth' = depth + 1 /\ pc' = "add_random_objects"
     ELSE depth' = depth /\ pc' = "crashed"

\* delete every object of this attempt and call add_random_objects again;
\* a call deeper than the interpreter allows raises RecursionError
restart_placement ==
  /\ bpy_objects' = delete_objects(bpy_objects, bpy_objects)
  /\ heap' = << >>
  /\ objects' = << >>
  /\ positions' = << >>
  /\ size' = << >>
  /\ num_tries' = 0
  /\ samples' = 0
  /\ checked' = << >>
  /\ all_visible' = FALSE
  /\ IF depth < RecursionLimit
     THEN depth' = depth + 1 /\ pc' = "add_random_objects"
     ELSE depth' = depth /\ pc' = "crashed"

\* num_tries > args.max_retries: give up this attempt
add_random_objects_restart ==
  /\ pc = "add_random_objects"
  /\ size # << >>
  /\ num_tries + 1 > args.max_retries
  /\ restart_placement
  /\ UNCHANGED << render_args, shadeless_vars, new_name, caption_vars >>
  /\ UNCHANGED << args, properties, sc_change_type, i, num_objects, files,
                  all_scene_paths, all_sc_scene_paths, all_nsc_scene_paths,
                  default_config, nonsemantic_change_success, semantic_change_success,
                  scene, scene_struct, default_dump, camera, lamps, change_type,
                  new_objects, other_positions, ret >>

\* all objects are placed: check_visibility, then return or start over
add_random_objects_visibility ==
  /\ pc = "add_random_objects"
  /\ Len(objects) = num_objects
  /\ size = << >>
  /\ \E tally \in Renders(Len(bpy_objects)) :
       IF check_visibility(Len(bpy_objects), args.min_pixels_per_object, tally)
       THEN /\ pc' = "render_default_scene"
            /\ checked' = bpy_objects
            /\ all_visible' = TRUE
            \* every open call returns
            /\ depth' = 0
            /\ UNCHANGED << bpy_objects, heap, objects, positions, size, num_tries, samples >>
       ELSE restart_placement
  /\ UNCHANGED << render_args, shadeless_vars, new_name, caption_vars >>
  /\ UNCHANGED << args, properties, sc_change_type, i, num_objects, files,
                  all_scene_paths, all_sc_scene_paths, all_nsc_scene_paths,
                  default_config, nonsemantic_change_success, semantic_change_success,
                  scene, scene_struct, default_dump, camera, lamps, change_type,
                  new_objects, other_positions, ret >>

-----------------------------------------------------------------------------
(* render_default_scene, from the return of add_random_objects *)

\* a faulty order: the relationships are computed before the objects are set
written_scene_early(ss, refs, h) ==
  [ ss EXCEPT !.objects = refs,
              !.relationships = compute_all_relationships(ss.directions, Deref(h, ss.objects)) ]

\* scene_struct['objects'] = objects;
\* scene_struct['relationships'] = compute_all_relationships(scene_struct)
written_scene(ss, refs, h) ==
  [ ss EXCEPT !.objects = refs,
              !.relationships = compute_all_relationships(ss.directions, Deref(h, refs)) ]

\* json.dump(scene_struct, f): the scene structure by value
dump(ss, h) == [ ss EXCEPT !.objects = Deref(h, ss.objects) ]

\* config['objects'], the scene structure, the render, the scene file and the
\* blend file; main then calls render_semantic_change with change_type='same'
render_default_scene_finish ==
  /\ pc = "render_default_scene"
  /\ LET ss == written_scene(scene_struct, objects, heap)
     IN /\ scene_struct' = ss
        /\ default_dump' = dump(ss, heap)
  /\ default_config' = [ default_config EXCEPT !.objects = objects ]
  /\ files' = files \cup SceneFiles(args, "default", i + args.start_idx)
  /\ objects' = << >>
  /\ positions' = << >>
  /\ scene' = "nonsemantic"
  /\ change_type' = "same"
  /\ pc' = "render_semantic_change"
  /\ UNCHANGED << args, properties, sc_change_type, i, num_objects,
                  all_scene_paths, all_sc_scene_paths, all_nsc_scene_paths,
                  nonsemantic_change_success, semantic_change_success,
                  camera, lamps, bpy_objects, heap, size, num_tries, samples,
                  new_objects, other_positions, ret >>
  /\ UNCHANGED << depth, checked, all_visible, render_args, shadeless_vars, new_name, caption_vars >>

-----------------------------------------------------------------------------
(* render_semantic_change, up to its call of apply_change *)

\* the lamp locations after the three loops location[i] += default_..._jitters[i];
\* a loop over an empty list raises IndexError and the later loops do not run
replayed_lamps(config) ==
  LET key_ok == config.key_light_jitters # << >>
      back_ok == key_ok /\ config.back_light_jitters # << >>
      fill_ok == back_ok /\ config.fill_light_jitters # << >>
  IN [ Lamp_Key |-> IF key_ok THEN [ k \in Axes |-> config.key_light_jitters[k] ] ELSE Zero3,
       Lamp_Back |-> IF back_ok THEN [ k \in Axes |-> config.back_light_jitters[k] ] ELSE Zero3,
       Lamp_Fill |-> IF fill_ok THEN [ k \in Axes |-> config.fill_light_jitters[k] ] ELSE Zero3 ]

lamps_replayable(config) ==
  /\ config.key_light_jitters # << >>
  /\ config.back_light_jitters # << >>
  /\ config.fill_light_jitters # << >>

\* a faulty jitter that forgets the offsets of the base scene
variant_camera_fresh(L, default_camera_jitters, jitter) ==
  IF L > 0 THEN [ k \in Axes |-> jitter[k] ] ELSE Zero3

\* location[i] += (default_camera_jitters[i] + rand_camera_jitter)
variant_camera(L, default_camera_jitters, jitter) ==
  IF L > 0 THEN [ k \in Axes |-> default_camera_jitters[k] + jitter[k] ] ELSE Zero3

render_semantic_change_setup ==
  /\ pc = "render_semantic_change"
  /\ \E rj \in jitters(args.camera_jitter) :
       LET cam == variant_camera(args.camera_jitter, default_config.camera_jitters, rj)
       IN /\ camera' = cam
          /\ scene_struct' = NewSceneStruct(scene, i + args.start_idx, cam)
  /\ lamps' = replayed_lamps(default_config)
  /\ pc' = IF lamps_replayable(default_config) THEN "apply_change" ELSE "crashed"
  /\ bpy_objects' = << >>
  \* the dicts of the previous variant are garbage
  /\ heap' = SubSeq(heap, 1, Len(default_config.objects))
  /\ new_objects' = << >>
  /\ other_positions' = << >>
  /\ size' = << >>
  /\ num_tries' = 0
  /\ samples' = 0
  /\ ret' = NoRet
  /\ UNCHANGED << args, properties, sc_change_type, i, num_objects, files,
                  all_scene_paths, all_sc_scene_paths, all_nsc_scene_paths,
                  default_config, nonsemantic_change_success, semantic_change_success,
                  scene, default_dump, objects, positions, change_type >>
  /\ render_args' = scene_render_args(BaseRenderArgs, scene, i + args.start_idx)
  /\ checked' = << >>
  /\ all_visible' = FALSE
  /\ UNCHANGED << depth, shadeless_vars, new_name, caption_vars >>

-----------------------------------------------------------------------------
(* apply_change *)

\* where apply_change stands after its if / elif chain, for each way the
\* random choices may fall.  pc: render_objects (the chain is done), add_try
\* (the retry loop of 'add'), crashed (random.randint(0, -1) raises
\* ValueError), spinning (a while True loop with no value to leave it).
edited(h, refs) ==
  [ pc |-> "render_objects", heap |-> h, new_objects |-> refs, size |-> << >>,
    other_positions |-> << >> ]

stopped(at, h) ==
  [ pc |-> at, heap |-> h, new_objects |-> << >>, size |-> << >>,
    other_positions |-> << >> ]

\* a faulty 'color' that may draw the current color again
change_color_any(h, default_objects, props) ==
  LET c == copy_all(h, default_objects)
  IN IF Len(default_objects) = 0 THEN { stopped("crashed", h) }
     ELSE UNION { { edited([ c.heap EXCEPT ![c.refs[object_idx]].color = new_color_name ],
                           c.refs) : new_color_name \in props.colors }
                  : object_idx \in 1..Len(default_objects) }

\* a faulty 'color' that avoids every color an object dict ever had
change_color_history(h, default_objects, props) ==
  LET c == copy_all(h, default_objects)
  IN IF Len(default_objects) = 0 THEN { stopped("crashed", h) }
     ELSE UNION { LET others == props.colors \ { h[id].color : id \in DOMAIN h }
                  IN IF others = {} THEN { stopped("spinning", h) }
                     ELSE { edited([ c.heap EXCEPT ![c.refs[object_idx]].color = new_color_name ],
                                   c.refs) : new_color_name \in others }
                  : object_idx \in 1..Len(default_objects) }

change_color(h, default_objects, props) ==
  LET c == copy_all(h, default_objects)
  IN IF Len(default_objects) = 0 THEN { stopped("crashed", h) }
     ELSE UNION { LET curr_color_name == c.heap[c.refs[object_idx]].color
                      others == props.colors \ { curr_color_name }
                  IN IF others = {} THEN { stopped("spinning", h) }
                     ELSE { edited([ c.heap EXCEPT ![c.refs[object_idx]].color = new_color_name ],
                                   c.refs) : new_color_name \in others }
                  : object_idx \in 1..Len(default_objects) }

\* a faulty 'material' that may draw the current material again
change_material_any(h, default_objects, props) ==
  LET c == copy_all(h, default_objects)
  IN IF Len(default_objects) = 0 THEN { stopped("crashed", h) }
     ELSE UNION { { edited([ c.heap EXCEPT ![c.refs[object_idx]].material = m[2] ],
                           c.refs) : m \in props.materials }
                  : object_idx \in 1..Len(default_objects) }

change_material(h, default_objects, props) ==
  LET c == copy_all(h, default_objects)
  IN IF Len(default_objects) = 0 THEN { stopped("crashed", h) }
     ELSE UNION { LET curr_mat_name == mat_name_of(props, c.heap[c.refs[object_idx]].material)
                      others == { m \in props.materials : m[1] # curr_mat_name }
                  IN IF others = {} THEN { stopped("spinning", h) }
                     ELSE { edited([ c.heap EXCEPT ![c.refs[object_idx]].material = m[2] ],
                                   c.refs) : m \in others }
                  : object_idx \in 1..Len(default_objects) }

\* a faulty 'drop' that draws object_idx from 1 .. curr_num_objects - 1
change_drop_from_one(h, default_objects) ==
  LET c == copy_all(h, default_objects)
  IN IF Len(default_objects) <= 1 THEN { stopped("crashed", h) }
     ELSE { edited(c.heap, RemoveAt(c.refs, object_idx)) :
              object_idx \in 2..Len(default_objects) }

\* a faulty 'drop' that breaks out of the loop at object_idx
change_drop_break(h, default_objects) ==
  LET c == copy_all(h, default_objects)
  IN IF Len(default_objects) = 0 THEN { stopped("crashed", h) }
     ELSE { edited(c.heap, SubSeq(c.refs, 1, object_idx - 1)) :
              object_idx \in 1..Len(default_objects) }

change_drop(h, default_objects) ==
  LET c == copy_all(h, default_objects)
  IN IF Len(default_objects) = 0 THEN { stopped("crashed", h) }
     ELSE { edited(c.heap, RemoveAt(c.refs, object_idx)) :
              object_idx \in 1..Len(default_objects) }

change_add(h, default_objects, props) ==
  LET c == copy_all(h, default_objects)
  IN { [ pc |-> "add_try", heap |-> c.heap, new_objects |-> c.refs, size |-> sz,
         other_positions |->
           [ k \in DOMAIN default_objects |->
               << h[default_objects[k]].coords_3d[1], h[default_objects[k]].coords_3d[2],
                  radius_of(props, h[default_objects[k]]) >> ] ]
       : sz \in props.sizes }

\* a faulty 'same' that copies nothing
change_same_empty(h, default_objects) == { edited(h, << >>) }

change_same(h, default_objects) ==
  LET c == copy_all(h, default_objects)
  IN { edited(c.heap, c.refs) }

\* 'shape', 'switch', 'random': pass; new_objects stays []
change_pass(h) == { edited(h, << >>) }

apply_change_outcomes(ct, h, default_objects, props) ==
  CASE ct = "color" -> change_color(h, default_objects, props)
    [] ct = "material" -> change_material(h, default_objects, props)
    [] ct = "shape" -> change_pass(h)
    [] ct = "drop" -> change_drop(h, default_objects)
    [] ct = "add" -> change_add(h, default_objects, props)
    [] ct = "switch" -> change_pass(h)
    [] ct = "random" -> change_pass(h)
    [] ct = "same" -> change_same(h, default_objects)
    [] OTHER -> change_pass(h)

\* the if / elif chain on change_type
apply_change_edit ==
  /\ pc = "apply_change"
  /\ \E o \in apply_change_outcomes(change_type, heap, default_config.objects, properties) :
       /\ pc' = o.pc
       /\ heap' = o.heap
       /\ new_objects' = o.new_objects
       /\ size' = o.size
       /\ other_positions' = o.other_positions
  /\ num_tries' = 0
  /\ samples' = 0
  /\ UNCHANGED << args, properties, sc_change_type, i, num_objects, files,
                  all_scene_paths, all_sc_scene_paths, all_nsc_scene_paths,
                  default_config, nonsemantic_change_success, semantic_change_success,
                  scene, scene_struct, default_dump, camera, lamps, bpy_objects,
                  objects, positions, change_type, ret >>
  /\ UNCHANGED << depth, checked, all_visible, render_args, shadeless_vars, new_name, caption_vars >>

\* return None, None, False
failed_ret == [ returned |-> TRUE, is_none |-> TRUE, objects |-> << >>, success |-> FALSE ]

\* a faulty give-up test that allows one more pass
add_gives_up_late(tries, max_retries) == tries > max_retries + 1

\* the retry limit of the 'add' loop: num_tries > args.max_retries
add_gives_up(tries, max_retries) == tries > max_retries

\* one pass of the while loop of 'add'
apply_change_add_try ==
  /\ pc = "add_try"
  /\ num_tries' = num_tries + 1
  /\ IF add_gives_up(num_tries + 1, args.max_retries)
     THEN /\ ret' = failed_ret
          /\ pc' = "apply_returned"
          /\ UNCHANGED << samples, heap, new_objects >>
     ELSE /\ samples' = samples + 1
          /\ ret' = ret
          /\ \E new_x \in Coords, new_y \in Coords :
               IF check_dist_margin(<< new_x, new_y, size[2] >>, other_positions,
                                    scene_struct.directions, args)
               THEN \E sc \in shape_color_choices(properties), new_theta \in Thetas,
                       mat \in properties.materials :
                      /\ heap' = Append(heap,
                           [ shape |-> sc[2], size |-> size[1], material |-> mat[2],
                             coords_3d |-> << new_x, new_y, AddedZ >>,
                             rotation |-> new_theta, pixel_coords |-> << >>,
                             color |-> sc[3] ])
                      /\ new_objects' = Append(new_objects, Len(heap) + 1)
                      /\ pc' = "render_objects"
               ELSE /\ pc' = "add_try"
                    /\ UNCHANGED << heap, new_objects >>
  /\ UNCHANGED << args, properties, sc_change_type, i, num_objects, files,
                  all_scene_paths, all_sc_scene_paths, all_nsc_scene_paths,
                  default_config, nonsemantic_change_success, semantic_change_success,
                  scene, scene_struct, default_dump, camera, lamps, bpy_objects,
                  objects, positions, size, change_type, other_positions >>
  /\ UNCHANGED << depth, checked, all_visible, render_args, shadeless_vars, new_name, caption_vars >>

\* apply_change.render_object(obj): the new renderer object
render_object(props, obj) ==
  add_object(obj_name_of(props, obj.shape), radius_of(props, obj),
             obj.coords_3d[1], obj.coords_3d[2], obj.rotation,
             mat_name_of(props, obj.material), obj.color)

\* obj['pixel_coords'] = new_pixel_coords for every obj of new_objects
with_pixel_coords(h, refs, blend_objects, cam) ==
  [ id \in DOMAIN h |->
      IF id \in Range(refs)
      THEN LET k == CHOOSE j \in DOMAIN refs : refs[j] = id
           IN [ h[id] EXCEPT !.pixel_coords = get_camera_coords(cam, blend_objects[k].location) ]
      ELSE h[id] ]

\* a faulty tail that returns the list whatever check_visibility said
apply_change_return_always(visible, objs) ==
  [ returned |-> TRUE, is_none |-> FALSE, objects |-> objs, success |-> TRUE ]

\* if not all_visible: return None, None, False; return new_objects, ..., True
apply_change_return(visible, objs) ==
  IF ~visible THEN failed_ret
  ELSE [ returned |-> TRUE, is_none |-> FALSE, objects |-> objs, success |-> TRUE ]

\* the tail of apply_change: every object of new_objects is instantiated,
\* then check_visibility decides what is returned
apply_change_render ==
  /\ pc = "render_objects"
  /\ LET new_blend_objects ==
           [ k \in DOMAIN new_objects |-> render_object(properties, heap[new_objects[k]]) ]
     IN /\ heap' = with_pixel_coords(heap, new_objects, new_blend_objects, camera)
        /\ checked' = new_blend_objects
        /\ \E tally \in Renders(Len(new_objects)) :
             LET visible == check_visibility(Len(new_objects), args.min_pixels_per_object, tally)
             IN /\ all_visible' = visible
                \* for obj in new_blend_objects: utils.delete_object(obj)
                /\ bpy_objects' = IF visible THEN new_blend_objects
                                  ELSE delete_objects(new_blend_objects, new_blend_objects)
                /\ ret' = apply_change_return(visible, new_objects)
  /\ pc' = "apply_returned"
  /\ UNCHANGED << depth, render_args, shadeless_vars, new_name, caption_vars >>
  /\ UNCHANGED << args, properties, sc_change_type, i, num_objects, files,
                  all_scene_paths, all_sc_scene_paths, all_nsc_scene_paths,
                  default_config, nonsemantic_change_success, semantic_change_success,
                  scene, scene_struct, default_dump, camera, lamps,
                  objects, positions, size, num_tries, samples, change_type,
                  new_objects, other_positions >>

-----------------------------------------------------------------------------
(* render_semantic_change, from the return of apply_change, and main's next call *)

\* a faulty main that makes its second call only if the first one succeeded
after_nonsemantic_guarded(success) ==
  IF success THEN "render_semantic_change" ELSE "verify"

\* main after nonsemantic_change_success = render_semantic_change(...): the
\* call with the semantic change type follows, whatever was returned
after_nonsemantic(success) == "render_semantic_change"

render_semantic_change_finish ==
  /\ pc = "apply_returned"
  /\ IF ret.success
     THEN /\ scene_struct' = written_scene(scene_struct, ret.objects, heap)
          /\ files' = files \cup SceneFiles(args, scene, i + args.start_idx)
     ELSE UNCHANGED << scene_struct, files >>
  /\ IF scene = "nonsemantic"
     THEN /\ nonsemantic_change_success' = ret.success
          /\ scene' = "semantic"
          /\ change_type' = sc_change_type
          /\ pc' = after_nonsemantic(ret.success)
          /\ UNCHANGED semantic_change_success
     ELSE /\ semantic_change_success' = ret.success
          /\ pc' = "verify"
          /\ UNCHANGED << nonsemantic_change_success, scene, change_type >>
  /\ UNCHANGED << args, properties, sc_change_type, i, num_objects,
                  all_scene_paths, all_sc_scene_paths, all_nsc_scene_paths,
                  default_config, default_dump, camera, lamps, bpy_objects, heap,
                  objects, positions, size, num_tries, samples,
                  new_objects, other_positions, ret >>
  /\ UNCHANGED << depth, checked, all_visible, render_args, shadeless_vars, new_name, caption_vars >>

-----------------------------------------------------------------------------
(* main: accept or reject the index, and the end of the loop *)

\* a faulty cleanup that leaves the files of the base scene
removed_paths_variants(a, index, nsc_success, sc_success) ==
  (IF nsc_success THEN SceneFiles(a, "nonsemantic", index) ELSE {})
    \cup (IF sc_success THEN SceneFiles(a, "semantic", index) ELSE {})

\* a faulty cleanup that removes the files of both variants whatever they
\* returned
removed_paths_all(a, index, nsc_success, sc_success) ==
  SceneFiles(a, "default", index) \cup SceneFiles(a, "nonsemantic", index)
    \cup SceneFiles(a, "semantic", index)

\* the paths the else branch passes to os.remove
removed_paths(a, index, nsc_success, sc_success) ==
  SceneFiles(a, "default", index)
    \cup (IF nsc_success THEN SceneFiles(a, "nonsemantic", index) ELSE {})
    \cup (IF sc_success THEN SceneFiles(a, "semantic", index) ELSE {})

\* a faulty test that accepts the index when one variant succeeded
accepted_either(sc_success, nsc_success) == sc_success \/ nsc_success

\* if semantic_change_success and nonsemantic_change_success
accepted(sc_success, nsc_success) == sc_success /\ nsc_success

\* a faulty main that lists the semantic scene file of the next index
scene_path_shifted(category, index) ==
  Path(category, IF category = "semantic" THEN index + 1 ELSE index, "json")

\* default_scene_path, semantic_scene_path, nonsemantic_scene_path: the
\* scene template of the category at i + args.start_idx
scene_path(category, index) == Path(category, index, "json")

\* if semantic_change_success and nonsemantic_change_success: ... else: ...
main_verify ==
  /\ pc = "verify"
  /\ LET index == i + args.start_idx
         doomed == removed_paths(args, index, nonsemantic_change_success,
                                 semantic_change_success)
     IN IF accepted(semantic_change_success, nonsemantic_change_success)
        THEN /\ all_scene_paths' = Append(all_scene_paths, scene_path("default", index))
             /\ all_sc_scene_paths' = Append(all_sc_scene_paths, scene_path("semantic", index))
             /\ all_nsc_scene_paths' = Append(all_nsc_scene_paths, scene_path("nonsemantic", index))
             /\ i' = i + 1
             /\ pc' = "main"
             /\ UNCHANGED files
        ELSE /\ files' = files \ doomed
             \* os.remove of a file that does not exist raises FileNotFoundError
             /\ pc' = IF doomed \subseteq files THEN "main" ELSE "crashed"
             /\ UNCHANGED << all_scene_paths, all_sc_scene_paths, all_nsc_scene_paths, i >>
  /\ UNCHANGED << args, properties, sc_change_type, num_objects,
                  default_config, nonsemantic_change_success, semantic_change_success,
                  scene, scene_struct, default_dump, camera, lamps, bpy_objects, heap,
                  objects, positions, size, num_tries, samples, change_type,
                  new_objects, other_positions, ret >>
  /\ UNCHANGED << depth, checked, all_visible, render_args, shadeless_vars, new_name, caption_vars >>

\* after the loop: the scene files of the three lists are read and the three
\* aggregate files are written
main_finish ==
  /\ pc = "main"
  /\ ~(i < args.num_images)
  /\ LET read == Range(all_scene_paths) \cup Range(all_sc_scene_paths)
                   \cup Range(all_nsc_scene_paths)
     IN IF read \subseteq files
        THEN /\ pc' = "done"
             /\ files' = files \cup { OutputSceneFile(c) : c \in Categories }
        ELSE /\ pc' = "crashed"
             /\ UNCHANGED files
  /\ UNCHANGED << args, properties, sc_change_type, i, num_objects,
                  all_scene_paths, all_sc_scene_paths, all_nsc_scene_paths,
                  default_config, nonsemantic_change_success, semantic_change_success,
                  scene, scene_struct, default_dump, camera, lamps, bpy_objects, heap,
                  objects, positions, size, num_tries, samples, change_type,
                  new_objects, other_positions, ret >>
  /\ UNCHANGED << depth, checked, all_visible, render_args, shadeless_vars, new_name, caption_vars >>

-----------------------------------------------------------------------------
(* Specifications *)

\* main as written: the variants are 'same' and 'drop', so the retry loop of
\* 'add' is never entered
Next ==
  \/ render_default_scene_setup
  \/ add_random_objects_size
  \/ add_random_objects_try
  \/ add_random_objects_restart
  \/ add_random_objects_visibility
  \/ render_default_scene_finish
  \/ render_semantic_change_setup
  \/ apply_change_edit
  \/ apply_change_render
  \/ render_semantic_change_finish
  \/ main_verify
  \/ main_finish

Spec == Init /\ [][Next]_vars

\* apply_change under every change type: main with the change_type of its
\* second call of render_semantic_change left open
InitChange == InitWith(ChangeTypes)

NextChange == Next \/ apply_change_add_try

SpecChange == InitChange /\ [][NextChange]_vars

-----------------------------------------------------------------------------
(* check_visibility and render_shadeless, step by step *)

\* the name render_shadeless gives the material of object i: 'Material_%d' % i
MaterialNames == << "Material_0", "Material_1", "Material_2", "Material_3" >>

\* tempfile.mkstemp(suffix='.png')
TempPath == Path("shadeless", 0, "png")

\* the render settings render_default_scene leaves for the scene of index 0
SceneRenderArgs == scene_render_args(BaseRenderArgs, "default", 0)

\* the lists add_random_objects passes to check_visibility: 0..MaxObjects
\* objects, next to each other, of the two materials in turn
BlenderLists ==
  { [ k \in 1..n |->
        add_object("Sphere", 7, 20 * (k % 2), 20 * (k \div 2), 90,
                   IF k % 2 = 1 THEN "Rubber" ELSE "MyMetal", "red") ]
    : n \in 0..MaxObjects }

\* a call check_visibility(blender_objects, args.min_pixels_per_object)
InitVisibility ==
  /\ \E c \in Configs : args = c[1] /\ properties = c[2]
  /\ bpy_objects \in BlenderLists
  /\ checked = bpy_objects
  /\ pc = "check_visibility"
  /\ render_args = SceneRenderArgs
  /\ layers = HomeLayers
  /\ cached = NoCache
  /\ color_count = NoCount
  /\ new_name = "none"
  /\ NoCaptionScript
  /\ all_visible = FALSE
  /\ sc_change_type = "drop"
  /\ i = 0
  /\ num_objects = Len(bpy_objects)
  /\ files = {}
  /\ all_scene_paths = << >>
  /\ all_sc_scene_paths = << >>
  /\ all_nsc_scene_paths = << >>
  /\ default_config = NoConfig
  /\ nonsemantic_change_success = FALSE
  /\ semantic_change_success = FALSE
  /\ scene = "default"
  /\ scene_struct = NewSceneStruct("default", 0, Zero3)
  /\ default_dump = NoSceneStruct
  /\ camera = Zero3
  /\ lamps = HomeLamps
  /\ heap = << >>
  /\ objects = << >>
  /\ positions = << >>
  /\ size = << >>
  /\ num_tries = 0
  /\ samples = 0
  /\ change_type = "none"
  /\ new_objects = << >>
  /\ other_positions = << >>
  /\ ret = NoRet
  /\ depth = 0

\* what the visibility pass leaves alone
visibility_frame ==
  UNCHANGED << args, properties, sc_change_type, i, num_objects,
               all_scene_paths, all_sc_scene_paths, all_nsc_scene_paths,
               default_config, nonsemantic_change_success, semantic_change_success,
               scene, scene_struct, default_dump, camera, lamps, heap,
               objects, positions, size, num_tries, samples, change_type,
               new_objects, other_positions, ret, depth, checked, new_name,
               caption_vars >>

\* mkstemp, then render_shadeless down to the render call: the settings are
\* cached and overridden, lights and ground go to layer 2, every object gets
\* a shadeless material
render_shadeless_prepare ==
  /\ pc = "check_visibility"
  /\ files' = files \cup { TempPath }
  /\ cached' = [ old_filepath |-> render_args.filepath,
                 old_engine |-> render_args.engine,
                 old_use_antialiasing |-> render_args.use_antialiasing,
                 old_materials |-> [ k \in DOMAIN bpy_objects |-> bpy_objects[k].material ] ]
  /\ render_args' = [ filepath |-> TempPath, engine |-> "BLENDER_RENDER",
                      use_antialiasing |-> FALSE ]
  /\ layers' = [ name \in DOMAIN layers |-> 2 ]
  /\ bpy_objects' = [ k \in DOMAIN bpy_objects |->
                        [ bpy_objects[k] EXCEPT !.material = MaterialNames[k] ] ]
  /\ pc' = "shadeless_render"
  /\ UNCHANGED << color_count, all_visible >>
  /\ visibility_frame

\* bpy.ops.render.render(write_still=True): the image is written, or the
\* call raises and the exception leaves render_shadeless and check_visibility
render_shadeless_render ==
  /\ pc = "shadeless_render"
  /\ \/ /\ color_count' \in Renders(Len(bpy_objects))
        /\ pc' = "shadeless_restore"
     \/ /\ color_count' = color_count
        /\ pc' = "raised"
  /\ UNCHANGED << files, cached, render_args, layers, bpy_objects, all_visible >>
  /\ visibility_frame

\* the materials cached for the objects, put back in order
restored_materials(blender_objects, old_materials) ==
  [ k \in DOMAIN blender_objects |->
      [ blender_objects[k] EXCEPT !.material = old_materials[k] ] ]

\* render_shadeless after the render call: undo the above
render_shadeless_restore ==
  /\ pc = "shadeless_restore"
  /\ bpy_objects' = restored_materials(bpy_objects, cached.old_materials)
  /\ layers' = [ name \in DOMAIN layers |-> 0 ]
  /\ render_args' = [ filepath |-> cached.old_filepath, engine |-> cached.old_engine,
                      use_antialiasing |-> cached.old_use_antialiasing ]
  /\ pc' = "count_colors"
  /\ UNCHANGED << files, cached, color_count, all_visible >>
  /\ visibility_frame

\* check_visibility after render_shadeless: the image is loaded and removed,
\* the colors are counted
check_visibility_return ==
  /\ pc = "count_colors"
  /\ files' = files \ { TempPath }
  /\ all_visible' = check_visibility(Len(checked), args.min_pixels_per_object, color_count)
  /\ pc' = "visibility_returned"
  /\ UNCHANGED << cached, color_count, render_args, layers, bpy_objects >>
  /\ visibility_frame

NextVisibility ==
  \/ render_shadeless_prepare
  \/ render_shadeless_render
  \/ render_shadeless_restore
  \/ check_visibility_return

SpecVisibility == InitVisibility /\ [][NextVisibility]_vars

-----------------------------------------------------------------------------
(* apply_change with 'color', applied to the list it returned *)

\* the object lists of a base scene: 1..MaxObjects small rubber spheres in a
\* row, of any colors of the palette
ColorBases(props) ==
  UNION { { [ k \in 1..n |->
                [ shape |-> "sphere", size |-> "small", material |-> "rubber",
                  coords_3d |-> << 20 * (k - 1), 0, 7 >>, rotation |-> 90,
                  pixel_coords |-> << 20 * (k - 1), 0, 7 >>, color |-> cs[k] ] ]
            : cs \in [ 1..n -> props.colors ] }
          : n \in 1..MaxObjects }

\* render_semantic_change has called apply_change(default_objects, ...,
\* change_type) on a base scene that was written
InitApplyChange(types, tables, bases) ==
  /\ args = DefaultArgs
  /\ properties \in tables
  /\ heap \in bases
  /\ change_type \in types
  /\ sc_change_type = change_type
  /\ pc = "apply_change"
  /\ scene = "semantic"
  /\ i = 0
  /\ num_objects = Len(heap)
  /\ files = SceneFiles(args, "default", 0)
  /\ all_scene_paths = << >>
  /\ all_sc_scene_paths = << >>
  /\ all_nsc_scene_paths = << >>
  /\ \E kj \in jitters(args.key_light_jitter), bj \in jitters(args.back_light_jitter),
        fj \in jitters(args.fill_light_jitter) :
       /\ default_config = [ camera_jitters |-> << >>, key_light_jitters |-> kj,
                             back_light_jitters |-> bj, fill_light_jitters |-> fj,
                             objects |-> [ k \in 1..Len(heap) |-> k ] ]
       /\ lamps = replayed_lamps(default_config)
  /\ nonsemantic_change_success = FALSE
  /\ semantic_change_success = FALSE
  /\ scene_struct = NewSceneStruct("semantic", 0, Zero3)
  /\ default_dump = [ NewSceneStruct("default", 0, Zero3) EXCEPT !.objects = heap ]
  /\ camera = Zero3
  /\ bpy_objects = << >>
  /\ objects = << >>
  /\ positions = << >>
  /\ size = << >>
  /\ num_tries = 0
  /\ samples = 0
  /\ new_objects = << >>
  /\ other_positions = << >>
  /\ ret = NoRet
  /\ depth = 0
  /\ checked = << >>
  /\ all_visible = FALSE
  /\ render_args = scene_render_args(BaseRenderArgs, "semantic", 0)
  /\ layers = HomeLayers
  /\ cached = NoCache
  /\ color_count = NoCount
  /\ new_name = "none"
  /\ NoCaptionScript

InitColor ==
  InitApplyChange({ "color" }, { PaletteProperties, RichProperties },
                  ColorBases(PaletteProperties) \cup ColorBases(RichProperties))
  /\ heap \in ColorBases(properties)

\* apply_change(sc_objects, scene_struct, args, camera, change_type) on a
\* newly loaded scene, default_objects being the list the last call returned
apply_change_again ==
  /\ pc = "apply_returned"
  /\ ret.success
  /\ Len(heap) < (MaxChanges + 1) * Len(ret.objects)
  /\ default_config' = [ default_config EXCEPT !.objects = ret.objects ]
  /\ pc' = "apply_change"
  /\ bpy_objects' = << >>
  /\ new_objects' = << >>
  /\ ret' = NoRet
  /\ checked' = << >>
  /\ all_visible' = FALSE
  /\ UNCHANGED << args, properties, sc_change_type, i, num_objects, files,
                  all_scene_paths, all_sc_scene_paths, all_nsc_scene_paths,
                  nonsemantic_change_success, semantic_change_success,
                  scene, scene_struct, default_dump, camera, lamps, heap,
                  objects, positions, size, num_tries, samples, change_type,
                  other_positions, depth, render_args, shadeless_vars, new_name, caption_vars >>

NextColor ==
  \/ apply_change_edit
  \/ apply_change_render
  \/ apply_change_again

SpecColor == InitColor /\ [][NextColor]_vars

-----------------------------------------------------------------------------
(* The resampling loops of 'color' and 'material', draw by draw *)

\* the names the loop draws from: the keys of color_name_to_rgba, or the
\* material names (first components) of material_mapping
resample_names(ct, props) ==
  IF ct = "color" THEN props.colors ELSE { mt[1] : mt \in props.materials }

\* curr_color_name / curr_mat_name of the object dict new_obj
resample_current(ct, props, new_obj) ==
  IF ct = "color" THEN new_obj.color ELSE mat_name_of(props, new_obj.material)

\* new_obj after new_obj['color'] = new_color_name, or after
\* new_obj['material'] = new_mat_name_out for an entry of the drawn name
resampled(ct, props, new_obj, name) ==
  IF ct = "color" THEN { [ new_obj EXCEPT !.color = name ] }
  ELSE { [ new_obj EXCEPT !.material = mt[2] ] : mt \in { q \in props.materials : q[1] = name } }

\* a faulty test that never lets the loop end
resample_exits_never(name, curr_name) == name # name

\* if new_color_name != curr_color_name: break (likewise new_mat_name)
resample_exits(name, curr_name) == name # curr_name

\* object_idx is drawn and the for loop runs up to it: the objects before
\* object_idx are copied and appended, new_obj is the copy of the object at
\* object_idx (the last dict of the heap); random.randint(0, -1) raises
resample_enter ==
  /\ pc = "apply_change"
  /\ change_type \in { "color", "material" }
  /\ IF default_config.objects = << >>
     THEN /\ pc' = "crashed"
          /\ UNCHANGED << heap, new_objects >>
     ELSE \E object_idx \in DOMAIN default_config.objects :
            LET c == copy_all(heap, SubSeq(default_config.objects, 1, object_idx))
            IN /\ heap' = c.heap
               /\ new_objects' = SubSeq(c.refs, 1, object_idx - 1)
               /\ pc' = "resample"
  /\ new_name' = "none"
  /\ UNCHANGED << args, properties, sc_change_type, i, num_objects, files,
                  all_scene_paths, all_sc_scene_paths, all_nsc_scene_paths,
                  default_config, nonsemantic_change_success, semantic_change_success,
                  scene, scene_struct, default_dump, camera, lamps, bpy_objects,
                  objects, positions, size, num_tries, samples, change_type,
                  other_positions, ret, depth, checked, all_visible, render_args,
                  shadeless_vars, caption_vars >>

\* a pass of the while loop that draws a name the test does not let through
resample_again ==
  /\ pc = "resample"
  /\ \E name \in resample_names(change_type, properties) :
       /\ ~resample_exits(name, resample_current(change_type, properties, heap[Len(heap)]))
       /\ new_name' = name
  /\ UNCHANGED << args, properties, sc_change_type, pc, i, num_objects, files,
                  all_scene_paths, all_sc_scene_paths, all_nsc_scene_paths,
                  default_config, nonsemantic_change_success, semantic_change_success,
                  scene, scene_struct, default_dump, camera, lamps, bpy_objects, heap,
                  objects, positions, size, num_tries, samples, change_type,
                  new_objects, other_positions, ret, depth, checked, all_visible,
                  render_args, shadeless_vars, caption_vars >>

\* a pass of the while loop that breaks: new_obj is changed and appended,
\* and the for loop copies and appends the objects after object_idx
resample_leave ==
  /\ pc = "resample"
  /\ \E name \in resample_names(change_type, properties) :
       /\ resample_exits(name, resample_current(change_type, properties, heap[Len(heap)]))
       /\ new_name' = name
       /\ \E new_obj \in resampled(change_type, properties, heap[Len(heap)], name) :
            LET object_idx == Len(new_objects) + 1
                c == copy_all([ heap EXCEPT ![Len(heap)] = new_obj ],
                              SubSeq(default_config.objects, object_idx + 1,
                                     Len(default_config.objects)))
            IN /\ heap' = c.heap
               /\ new_objects' = new_objects \o << Len(heap) >> \o c.refs
  /\ pc' = "render_objects"
  /\ UNCHANGED << args, properties, sc_change_type, i, num_objects, files,
                  all_scene_paths, all_sc_scene_paths, all_nsc_scene_paths,
                  default_config, nonsemantic_change_success, semantic_change_success,
                  scene, scene_struct, default_dump, camera, lamps, bpy_objects,
                  objects, positions, size, num_tries, samples, change_type,
                  other_positions, ret, depth, checked, all_visible, render_args,
                  shadeless_vars, caption_vars >>

\* the 'add' branch down to its while loop
apply_change_add == change_type = "add" /\ apply_change_edit

InitResample ==
  InitApplyChange({ "color", "material", "add" },
                  { PlainProperties, RichProperties, PaletteProperties, TwinProperties },
                  ColorBases(PaletteProperties) \cup { << >> })
  /\ \A k \in DOMAIN heap : heap[k].color \in properties.colors

NextResample ==
  \/ resample_enter
  \/ resample_again
  \/ resample_leave
  \/ apply_change_add
  \/ apply_change_add_try
  \/ apply_change_render

\* random.choice is fair: a name that can be drawn is drawn in the end, so
\* a pass that breaks is not put off forever; the 'add' loop only has to
\* keep running
SpecResample ==
  /\ InitResample
  /\ [][NextResample]_vars
  /\ WF_vars(resample_leave)
  /\ WF_vars(apply_change_add_try)

-----------------------------------------------------------------------------
(* The caption scripts: what they leave alone *)

\* the image generation script is not running
NoRendering ==
  /\ args = DefaultArgs
  /\ properties = PlainProperties
  /\ sc_change_type = "drop"
  /\ i = 0
  /\ num_objects = 0
  /\ files = {}
  /\ all_scene_paths = << >>
  /\ all_sc_scene_paths = << >>
  /\ all_nsc_scene_paths = << >>
  /\ default_config = NoConfig
  /\ nonsemantic_change_success = FALSE
  /\ semantic_change_success = FALSE
  /\ scene = "default"
  /\ scene_struct = NoSceneStruct
  /\ default_dump = NoSceneStruct
  /\ camera = Zero3
  /\ lamps = HomeLamps
  /\ bpy_objects = << >>
  /\ heap = << >>
  /\ objects = << >>
  /\ positions = << >>
  /\ size = << >>
  /\ num_tries = 0
  /\ samples = 0
  /\ change_type = "none"
  /\ new_objects = << >>
  /\ other_positions = << >>
  /\ ret = NoRet
  /\ depth = 0
  /\ checked = << >>
  /\ all_visible = FALSE
  /\ render_args = BaseRenderArgs
  /\ layers = HomeLayers
  /\ cached = NoCache
  /\ color_count = NoCount
  /\ new_name = "none"

\* len(d) of a dict
len(d) == Cardinality(DOMAIN d)

\* d.update(caps): the entries of caps replace and extend those of d
update(d, caps) ==
  [ k \in DOMAIN d \cup DOMAIN caps |-> IF k \in DOMAIN caps THEN caps[k] ELSE d[k] ]

\* all lists of at most n elements of S
ListsUpTo(S, n) == UNION { [ 1..m -> S ] : m \in 0..n }

-----------------------------------------------------------------------------
(* merge_captions.py *)

\* the image filenames the caption files have entries for
ImageKeys == { "CLEVR_default_000000.png", "CLEVR_default_000001.png",
               "CLEVR_default_000002.png" }

\* the caption lists of an image
CaptionLists == { << "the cube turned red" >>, << "nothing changed" >> }

\* the content a caption file of input_dir may have: a dict from image
\* filenames to caption lists
CaptionDicts == UNION { [ ks -> CaptionLists ] : ks \in SUBSET ImageKeys }

InitMerge ==
  /\ NoRendering
  /\ pc = "merge_captions"
  /\ input_files \in ListsUpTo(CaptionDicts, MaxFiles)
  /\ filename = 0
  /\ img_to_caps = << >>
  /\ count = 0
  /\ split = "None"
  /\ NoSplit
  /\ output = NoOutput

\* a faulty check that lets every merge pass
merge_assert_skipped(n, d) == TRUE

\* assert count == len(img_to_caps)
merge_assert(n, d) == n = len(d)

\* one round of the for loop of main: a file is loaded and merged, the
\* entries are counted and the count is compared with the size of the map
merge_captions_file ==
  /\ pc = "merge_captions"
  /\ filename < Len(input_files)
  /\ LET caps == input_files[filename + 1]
         newly_added == len(caps)
         merged == update(img_to_caps, caps)
     IN /\ img_to_caps' = merged
        /\ count' = count + newly_added
        /\ pc' = IF merge_assert(count + newly_added, merged)
                 THEN "merge_captions" ELSE "crashed"
  /\ filename' = filename + 1
  /\ UNCHANGED << input_files, split, output >>
  /\ UNCHANGED << render_vars, split_vars >>

\* after the loop: json.dump(img_to_caps, f) into args.output_file
merge_captions_dump ==
  /\ pc = "merge_captions"
  /\ filename = Len(input_files)
  /\ output' = [ written |-> TRUE, content |-> img_to_caps ]
  /\ pc' = "done"
  /\ UNCHANGED << render_vars, merge_vars, split_vars >>

NextMerge ==
  \/ merge_captions_file
  \/ merge_captions_dump

SpecMerge == InitMerge /\ [][NextMerge]_vars

-----------------------------------------------------------------------------
(* generate_split.py *)

\* image filenames are sequences of character codes: '_', '.', '0'
Underscore == 95
Period == 46
Digit0 == 48
\* num_digits of the image generation script: the width of an index
NumDigits == 6

\* '%06d' % k
Digits(k) ==
  [ p \in 1..NumDigits |-> Digit0 + ((k \div (10 ^ (NumDigits - p))) % 10) ]

\* 'C_<category>_<6-digit index>.png', the category being one letter
ImageName(category, k) ==
  << 67, Underscore, category, Underscore >> \o Digits(k) \o << Period, 112, 110, 103 >>

\* the indices the images of the caption map start at
StartIndices == { 0, 7 }

\* keys the caption map may hold besides those of its images: none, the
\* image of index 0 of another category ('C_s_000000.png'), or a file
\* without an index ('notes.txt')
StrayKeys ==
  { {}, { ImageName(115, 0) }, { << 110, 111, 116, 101, 115, Period, 116, 120, 116 >> } }

\* s.split(sep): the pieces of s between the occurrences of sep
RECURSIVE str_split(_, _)
str_split(s, sep) ==
  IF \A p \in DOMAIN s : s[p] # sep
  THEN << s >>
  ELSE LET p == CHOOSE q \in DOMAIN s : s[q] = sep /\ \A r \in 1..(q - 1) : s[r] # sep
       IN << SubSeq(s, 1, p - 1) >> \o str_split(SubSeq(s, p + 1, Len(s)), sep)

\* img.split('_')[-1].split('.')[0]
index_part(img) ==
  LET pieces == str_split(img, Underscore)
  IN str_split(pieces[Len(pieces)], Period)[1]

\* int(s) does not raise ValueError: s is a nonempty string of digits
is_int(s) == s # << >> /\ \A p \in DOMAIN s : s[p] \in Digit0..(Digit0 + 9)

\* int(s) of a string of digits
RECURSIVE int(_)
int(s) ==
  IF s = << >> THEN 0
  ELSE 10 * int(SubSeq(s, 1, Len(s) - 1)) + (s[Len(s)] - Digit0)

\* a < b of two strings
str_less(a, b) ==
  \E p \in 1..(Len(a) + 1) :
     /\ \A q \in 1..(p - 1) : q <= Len(b) /\ a[q] = b[q]
     /\ IF p > Len(a) THEN p <= Len(b) ELSE p <= Len(b) /\ a[p] < b[p]

\* sorted(list(captions.keys()))
sorted_keys(S) ==
  [ r \in 1..Cardinality(S) |->
      CHOOSE x \in S : Cardinality({ y \in S : str_less(y, x) }) = r - 1 ]

\* int(total_imgs * 0.9), int(total_imgs * 0.05): the float products,
\* truncated, are the integer quotients
train_len(total_imgs) == (9 * total_imgs) \div 10

val_len(total_imgs) == total_imgs \div 20

test_len(total_imgs) == total_imgs - (train_len(total_imgs) + val_len(total_imgs))

\* the orders random.shuffle may leave a list in after random.seed(123):
\* every order of a short list, the rotations of a longer one and of its
\* reverse
Shuffles(l) ==
  LET n == Len(l)
      orders == IF n <= 3
                THEN { f \in [ 1..n -> 1..n ] : \A a \in 1..n, b \in 1..n : f[a] = f[b] => a = b }
                ELSE { [ p \in 1..n |-> ((p - 1 + r) % n) + 1 ] : r \in 0..(n - 1) }
                     \cup { [ p \in 1..n |-> n - ((p - 1 + r) % n) ] : r \in 0..(n - 1) }
  IN { [ p \in 1..n |-> l[f[p]] ] : f \in orders }

\* indices[:train_len]
train_slice(l) == SubSeq(l, 1, train_len(Len(l)))

\* indices[train_len : train_len + val_len]
val_slice(l) == SubSeq(l, train_len(Len(l)) + 1, train_len(Len(l)) + val_len(Len(l)))

\* indices[train_len + val_len:]
test_slice(l) == SubSeq(l, train_len(Len(l)) + val_len(Len(l)) + 1, Len(l))

\* len(set(a).intersection(b)) == 0
disjoint(a, b) == Range(a) \cap Range(b) = {}

InitSplit ==
  /\ NoRendering
  /\ NoMerge
  /\ pc = "generate_split"
  /\ \E n \in 0..MaxImages, start \in StartIndices, stray \in StrayKeys :
        captions = [ img \in { ImageName(100, start + k) : k \in 0..(n - 1) } \cup stray
                       |-> << "the cube turned red" >> ]
  /\ indices = << >>
  /\ train_idx = << >>
  /\ val_idx = << >>
  /\ test_idx = << >>
  /\ output = NoOutput

\* lines 8-14: the keys are sorted and their indices parsed, which raises
\* ValueError for a key without one; the three lengths add up
generate_split_indices ==
  /\ pc = "generate_split"
  /\ LET imgs == sorted_keys(DOMAIN captions)
         total_imgs == len(captions)
     IN IF \A p \in DOMAIN imgs : is_int(index_part(imgs[p]))
        THEN /\ indices' = [ p \in DOMAIN imgs |-> int(index_part(imgs[p])) ]
             /\ pc' = IF train_len(total_imgs) + val_len(total_imgs) + test_len(total_imgs)
                          = total_imgs
                      THEN "shuffle" ELSE "crashed"
        ELSE /\ pc' = "crashed"
             /\ UNCHANGED indices
  /\ UNCHANGED << captions, train_idx, val_idx, test_idx, output >>
  /\ UNCHANGED << render_vars, merge_vars >>

\* lines 16-20: the indices are shuffled and sliced
generate_split_shuffle ==
  /\ pc = "shuffle"
  /\ \E l \in Shuffles(indices) :
        /\ indices' = l
        /\ train_idx' = train_slice(l)
        /\ val_idx' = val_slice(l)
        /\ test_idx' = test_slice(l)
  /\ pc' = "split_assert"
  /\ UNCHANGED << captions, output >>
  /\ UNCHANGED << render_vars, merge_vars >>

\* lines 22-28: the six assertions on the slices
generate_split_assert ==
  /\ pc = "split_assert"
  /\ pc' = IF /\ disjoint(train_idx, val_idx)
              /\ disjoint(train_idx, test_idx)
              /\ disjoint(test_idx, val_idx)
              /\ Len(train_idx) = train_len(len(captions))
              /\ Len(val_idx) = val_len(len(captions))
              /\ Len(test_idx) = test_len(len(captions))
           THEN "split_dump" ELSE "crashed"
  /\ UNCHANGED << split_vars, output >>
  /\ UNCHANGED << render_vars, merge_vars >>

\* lines 30-32: json.dump(split, f) into RESULT_FILE
generate_split_dump ==
  /\ pc = "split_dump"
  /\ output' = [ written |-> TRUE,
                 content |-> [ train |-> train_idx, val |-> val_idx, test |-> test_idx ] ]
  /\ pc' = "done"
  /\ UNCHANGED split_vars
  /\ UNCHANGED << render_vars, merge_vars >>

NextSplit ==
  \/ generate_split_indices
  \/ generate_split_shuffle
  \/ generate_split_assert
  \/ generate_split_dump

SpecSplit == InitSplit /\ [][NextSplit]_vars

-----------------------------------------------------------------------------
(* collect_captions.py *)

\* the captions the files of input_dir are made of: cap['split'],
\* cap['image_filename'], cap['question']
Caps ==
  { [ split |-> "train", image_filename |-> "CLEVR_default_000000.png",
      question |-> "the cube turned red" ],
    [ split |-> "train", image_filename |-> "CLEVR_default_000000.png",
      question |-> "nothing changed" ],
    [ split |-> "train", image_filename |-> "CLEVR_default_000001.png",
      question |-> "the cube turned red" ],
    [ split |-> "val", image_filename |-> "CLEVR_default_000000.png",
      question |-> "the cube turned red" ] }

\* the content a file may have under 'questions': at most two captions
QuestionLists == { << >> } \cup { << c >> : c \in Caps } \cup (Caps \X Caps)

InitCollect ==
  /\ NoRendering
  /\ NoSplit
  /\ pc = "collect_captions"
  /\ input_files \in ListsUpTo(QuestionLists, MaxFiles)
  /\ filename = 0
  /\ img_to_caps = << >>
  /\ count = 0
  /\ split = "None"
  /\ output = NoOutput

\* a faulty append that puts the new text first
appended_first(d, img_filename, text) ==
  [ k \in DOMAIN d \cup { img_filename } |->
      IF k = img_filename
      THEN (IF k \in DOMAIN d THEN << text >> \o d[k] ELSE << text >>)
      ELSE d[k] ]

\* img_to_caps[img_filename].append(text), img_to_caps being a
\* defaultdict of lists
appended(d, img_filename, text) ==
  [ k \in DOMAIN d \cup { img_filename } |->
      IF k = img_filename
      THEN (IF k \in DOMAIN d THEN Append(d[k], text) ELSE << text >>)
      ELSE d[k] ]

\* the inner loop of main over the captions of one file, from split and
\* img_to_caps as they are: it ends with the last caption or with the
\* assertion failing (ok is FALSE)
RECURSIVE collect_file(_, _, _)
collect_file(sp, d, caps) ==
  IF caps = << >>
  THEN [ split |-> sp, img_to_caps |-> d, ok |-> TRUE ]
  ELSE LET cap == Head(caps)
       IN IF sp # "None" /\ cap.split # sp
          THEN [ split |-> sp, img_to_caps |-> d, ok |-> FALSE ]
          ELSE collect_file(cap.split,
                            appended(d, cap.image_filename, cap.question),
                            Tail(caps))

\* one round of the outer loop of main: a file is loaded and its captions
\* are collected
collect_captions_file ==
  /\ pc = "collect_captions"
  /\ filename < Len(input_files)
  /\ LET r == collect_file(split, img_to_caps, input_files[filename + 1])
     IN /\ split' = r.split
        /\ img_to_caps' = r.img_to_caps
        /\ pc' = IF r.ok THEN "collect_captions" ELSE "crashed"
  /\ filename' = filename + 1
  /\ UNCHANGED << input_files, count, output >>
  /\ UNCHANGED << render_vars, split_vars >>

\* after the loop: json.dump(img_to_caps, f) into args.output_file
collect_captions_dump ==
  /\ pc = "collect_captions"
  /\ filename = Len(input_files)
  /\ output' = [ written |-> TRUE, content |-> img_to_caps ]
  /\ pc' = "done"
  /\ UNCHANGED << render_vars, merge_vars, split_vars >>

NextCollect ==
  \/ collect_captions_file
  \/ collect_captions_dump

SpecCollect == InitCollect /\ [][NextCollect]_vars

-----------------------------------------------------------------------------
(* Properties *)

\* the attempt at an index is over: main is back at its loop head
AttemptOver == pc = "main" /\ scene # "none"

\* the object dicts of the base scene, as its scene file holds them
BaseObjects == default_dump.objects

\* apply_change has returned a list and True
ChangeSucceeded(ct) == pc = "apply_returned" /\ change_type = ct /\ ret.success

\* the object dicts apply_change returned
Variant == Deref(heap, ret.objects)

AttributesOf(objs) == [ k \in DOMAIN objs |-> Attributes(objs[k]) ]

\* C1: when main has finished an attempt at an index, the output files that
\* exist are exactly the image, scene file and (if requested) blend file of
\* the three scenes of every accepted index: an accepted index keeps all of
\* its files, a rejected attempt leaves none, the base scene's included.
C1_AllOrNothing ==
  AttemptOver =>
    files = UNION { SceneFiles(args, c, idx) :
                      c \in Categories, idx \in args.start_idx..(args.start_idx + i - 1) }

\* an attempt was rejected after its 'same' variant had succeeded, with blend
\* files requested
C1_Witness ==
  /\ AttemptOver
  /\ nonsemantic_change_success
  /\ ~semantic_change_success
  /\ args.save_blendfiles = 1
  /\ default_config.objects # << >>

\* every two objects are at least min_dist + r_i + r_j apart
DistancesKept(objs) ==
  \A a \in DOMAIN objs, b \in DOMAIN objs :
     a # b =>
       LET dx == objs[a].coords_3d[1] - objs[b].coords_3d[1]
           dy == objs[a].coords_3d[2] - objs[b].coords_3d[2]
           s == args.min_dist + radius_of(properties, objs[a]) + radius_of(properties, objs[b])
       IN s >= 0 /\ dx * dx + dy * dy >= s * s

\* C2: in the layout add_random_objects returns and in every list
\* apply_change returns with success, the centers of every two objects are
\* at least min_dist + r_i + r_j apart.
C2_Distances ==
  /\ pc = "render_default_scene" => DistancesKept(Deref(heap, objects))
  /\ (pc = "apply_returned" /\ ret.success) => DistancesKept(Variant)

\* an 'add' succeeded on a base of at least one object
C2_Witness == ChangeSucceeded("add") /\ Len(ret.objects) >= 2

\* no signed margin along a horizontal direction is strictly between 0 and margin
MarginsKept(directions, objs) ==
  \A a \in DOMAIN objs, b \in DOMAIN objs, name \in HorizontalNames :
     a # b =>
       LET m == (objs[a].coords_3d[1] - objs[b].coords_3d[1]) * directions[name][1]
                  + (objs[a].coords_3d[2] - objs[b].coords_3d[2]) * directions[name][2]
       IN ~(0 < m /\ m < args.margin * Unit)

\* C3, as claimed: in the base scene and in every successful variant, along
\* the directions recorded in that scene, no signed margin of two objects is
\* strictly between 0 and margin.
C3_Margins ==
  /\ pc = "render_default_scene" => MarginsKept(scene_struct.directions, Deref(heap, objects))
  /\ (pc = "apply_returned" /\ ret.success) => MarginsKept(scene_struct.directions, Variant)

\* C4: apply_change leaves the base list and its object dicts, pixel_coords
\* included, as they were when the base scene was written.
C4_BaseUntouched ==
  default_config.objects # << >> =>
     Deref(heap, default_config.objects) = BaseObjects

\* a 'color' change succeeded and gave the changed scene's objects other
\* pixel coordinates than the base has
C4_Witness ==
  /\ ChangeSucceeded("color")
  /\ Variant[1].pixel_coords # BaseObjects[1].pixel_coords

C6_Same ==
  ChangeSucceeded("same") =>
     /\ Len(ret.objects) = Len(BaseObjects)
     /\ AttributesOf(Variant) = AttributesOf(BaseObjects)

\* a 'same' succeeded on two objects, with other pixel coordinates
C6_Witness ==
  /\ ChangeSucceeded("same")
  /\ Len(BaseObjects) = 2
  /\ Variant[2].pixel_coords # BaseObjects[2].pixel_coords

\* the variant differs from the base in the given field of one object only
OneFieldChanged(field) ==
  /\ Len(ret.objects) = Len(BaseObjects)
  /\ \E object_idx \in DOMAIN BaseObjects :
        /\ Variant[object_idx][field] # BaseObjects[object_idx][field]
        /\ [ Attributes(Variant[object_idx]) EXCEPT ![field] = BaseObjects[object_idx][field] ]
             = Attributes(BaseObjects[object_idx])
        /\ \A k \in DOMAIN BaseObjects :
              k # object_idx => Attributes(Variant[k]) = Attributes(BaseObjects[k])

\* C7: a successful 'color' changes the color of exactly one object to
\* another color and nothing else, whatever the size of the base.
C7_Color == ChangeSucceeded("color") => OneFieldChanged("color")

\* a 'color' succeeded on a scene of one object
C7_Witness == ChangeSucceeded("color") /\ Len(BaseObjects) = 1

\* C8: a successful 'material' changes the material of exactly one object
\* to another material and nothing else.
C8_Material == ChangeSucceeded("material") => OneFieldChanged("material")

\* a 'material' succeeded on a scene of two objects
C8_Witness == ChangeSucceeded("material") /\ Len(BaseObjects) = 2

\* the 'add' loop gave up: apply_change returned without a new object
AddExhausted ==
  /\ pc = "apply_returned"
  /\ change_type = "add"
  /\ Len(new_objects) = Len(default_config.objects)

\* C9: 'add' samples at most max_retries positions; when none of them
\* passes the checks it returns failure and no list, and the renderer holds
\* no object; with max_retries = 0 it always fails.
C9_AddGivesUp ==
  /\ change_type = "add" => samples <= args.max_retries
  /\ AddExhausted =>
        /\ samples = args.max_retries
        /\ ret.is_none
        /\ ~ret.success
        /\ bpy_objects = << >>
  /\ (pc = "apply_returned" /\ change_type = "add" /\ args.max_retries = 0) => ~ret.success

\* the loop gave up after sampling, next to at least one base object
C9_Witness == AddExhausted /\ samples >= 1 /\ Len(default_config.objects) >= 1

\* C10, as claimed: with a reserved change type apply_change never returns
\* success and never returns a list.
C10_Reserved ==
  (pc = "apply_returned" /\ change_type \in { "shape", "switch", "random" }) =>
     ~ret.success /\ ret.is_none

\* the number of distinct colors of the shadeless render
DistinctColors ==
  Cardinality({ k \in DOMAIN color_count.pixels : color_count.pixels[k] > 0 })
    + (IF color_count.background > 0 THEN 1 ELSE 0)

\* every object's flat color covers at least min_pixels_per_object pixels
ObjectsCovered ==
  \A k \in DOMAIN color_count.pixels :
     color_count.pixels[k] >= args.min_pixels_per_object

\* C11, as claimed: check_visibility returns False whenever some object's
\* color covers fewer than min_pixels_per_object pixels, and returns True
\* exactly when the render has as many distinct colors as objects plus one
\* and every object's pixel count is at least min_pixels_per_object.
C11_Visibility ==
  pc = "visibility_returned" =>
     /\ ~ObjectsCovered => ~all_visible
     /\ all_visible <=> (DistinctColors = Len(checked) + 1 /\ ObjectsCovered)

\* C19, as claimed: when render_shadeless / check_visibility is left, by a
\* return or by an exception of the render call, the objects have their
\* materials again, lights and ground are on their layer again, and the
\* render settings have their previous values.
C19_Restored ==
  pc \in { "visibility_returned", "raised" } =>
     /\ bpy_objects = checked
     /\ layers = HomeLayers
     /\ render_args = SceneRenderArgs

\* the scene record of the render function that returned last, by value
SceneRecord == dump(scene_struct, heap)

\* a render function has just returned
SceneReturned == pc \in { "render_semantic_change", "verify" }

\* no index is in its own related set
Irreflexive(rec) ==
  \A d \in DOMAIN rec.relationships :
     \A k \in DOMAIN rec.relationships[d] :
        (k - 1) \notin Range(rec.relationships[d][k])

\* C12: in every scene record, for every horizontal direction and every
\* object index i, i is not in the related set of i.
C12_Irreflexive ==
  /\ Irreflexive(default_dump)
  /\ SceneReturned => Irreflexive(SceneRecord)

\* a scene of two objects was written in which an object has the other one
\* on its right
C12_Witness ==
  /\ SceneReturned
  /\ Len(scene_struct.objects) = 2
  /\ \E k \in 1..2 : scene_struct.relationships["right"][k] # << >>

\* the dot product of position[j] - position[i] with a direction
Dot(rec, d, k, j) ==
  SeqSum([ a \in Axes |->
             (rec.objects[j].coords_3d[a] - rec.objects[k].coords_3d[a]) * rec.directions[d][a] ])

\* the keys are the horizontal directions, and j is related to i exactly
\* when the dot product is above eps
RelatedByDot(rec) ==
  /\ DOMAIN rec.relationships = HorizontalNames
  /\ \A d \in HorizontalNames :
        /\ Len(rec.relationships[d]) = Len(rec.objects)
        /\ \A k \in DOMAIN rec.objects, j \in DOMAIN rec.objects :
              k # j => ((j - 1) \in Range(rec.relationships[d][k])
                          <=> Dot(rec, d, k, j) > Eps * Unit)

\* C13: the relationship graph of every scene record has exactly the
\* horizontal directions as keys, and for every direction d and distinct
\* indices i, j, j is in the related set of i if and only if the dot product
\* of position[j] - position[i] with d's vector is greater than eps.
C13_RelatedByDot ==
  /\ default_config.objects # << >> => RelatedByDot(default_dump)
  /\ SceneReturned => RelatedByDot(SceneRecord)

\* a variant of two objects was written whose directions are the rotated ones
C13_Witness ==
  /\ SceneReturned
  /\ scene # "nonsemantic"
  /\ Len(scene_struct.objects) = 2
  /\ scene_struct.directions["behind"] # << 0, Unit, 0 >>

\* one related set per object, and only indices of the record's own list
OwnIndices(rec) ==
  \A d \in HorizontalNames :
     /\ Len(rec.relationships[d]) = Len(rec.objects)
     /\ \A k \in DOMAIN rec.relationships[d] :
           Range(rec.relationships[d][k]) \subseteq 0..(Len(rec.objects) - 1)

\* C14: the relationship graph of every scene record has, per direction, one
\* related set per object of that record's own list and only valid indices
\* into it; the graph of a 'drop' variant of an n-object base refers to the
\* indices 0..n-2 only.
C14_OwnIndices ==
  /\ default_config.objects # << >> => OwnIndices(default_dump)
  /\ SceneReturned => OwnIndices(SceneRecord)
  /\ (pc = "verify" /\ change_type = "drop" /\ semantic_change_success) =>
        \A d \in HorizontalNames :
           \A k \in DOMAIN scene_struct.relationships[d] :
              Range(scene_struct.relationships[d][k]) \subseteq 0..(Len(BaseObjects) - 2)

\* the 'drop' variant of a base of two objects was written
C14_Witness ==
  /\ pc = "verify"
  /\ change_type = "drop"
  /\ semantic_change_success
  /\ Len(BaseObjects) = 2
  /\ Len(scene_struct.objects) = 1

\* both variants of the attempt succeeded
BothSucceeded == semantic_change_success /\ nonsemantic_change_success

\* the scene files of the indices start_idx .. start_idx + n - 1, in order
PathsInOrder(category, n) ==
  [ k \in 1..n |-> Path(category, args.start_idx + k - 1, "json") ]

\* C15: the loop counter advances by exactly one when an index is accepted
\* and stays when it is rejected; after a rejection main starts the same
\* index again with a new base scene and newly drawn jitter; when the loop
\* has ended, exactly the indices start_idx .. start_idx + num_images - 1
\* have been accepted, each once and in increasing order.
C15_IndexSlots ==
  /\ [][ i' = i \/ (i' = i + 1 /\ pc = "verify" /\ BothSucceeded) ]_vars
  /\ [][ (pc = "verify" /\ BothSucceeded) => i' = i + 1 ]_vars
  /\ [][ (pc = "verify" /\ ~BothSucceeded) => (i' = i /\ pc' = "main") ]_vars
  /\ [][ (pc = "main" /\ pc' = "add_random_objects") =>
            /\ scene_struct'.image_index = i + args.start_idx
            /\ bpy_objects' = << >>
            /\ default_config'.objects = << >>
            /\ default_config'.camera_jitters \in jitters(args.camera_jitter) ]_vars
  /\ [](pc = "done" =>
            /\ i = args.num_images
            /\ all_scene_paths = PathsInOrder("default", args.num_images)
            /\ all_sc_scene_paths = PathsInOrder("semantic", args.num_images)
            /\ all_nsc_scene_paths = PathsInOrder("nonsemantic", args.num_images))

\* the loop over several indices, not starting at 0, has ended
C15_Witness ==
  /\ pc = "done"
  /\ args.num_images = NumImages
  /\ args.start_idx > 0
  /\ Len(all_scene_paths) = NumImages

\* C16, as claimed: placement never goes on indefinitely; when the restarts
\* of add_random_objects keep failing, planning stops after a bounded number
\* of them in the PlacementExhausted condition, so while the base scene is
\* being produced the program is placing, has a layout, or has failed with
\* PlacementExhausted.
C16_PlacementExhausted ==
  scene = "default" =>
     pc \in { "add_random_objects", "render_default_scene", "placement_exhausted" }

\* apply_change was called with 'drop' on a base that is not empty
DropOnObjects == change_type = "drop" /\ default_config.objects # << >>

\* C17, as claimed: for every non-empty base, apply_change with 'drop'
\* returns success together with an object list.
C17_DropSucceeds ==
  (pc = "apply_returned" /\ DropOnObjects) => (ret.success /\ ~ret.is_none)

\* C17, amended: for every non-empty base the 'drop' branch itself never
\* fails, it leaves the list of the n-1 remaining objects; apply_change then
\* returns success with that list exactly when check_visibility accepts the
\* re-rendered variant, and None, None, False otherwise.
C17_DropAmended ==
  /\ [][ (pc = "apply_change" /\ DropOnObjects) =>
            /\ pc' = "render_objects"
            /\ Len(new_objects') = Len(default_config.objects) - 1 ]_vars
  /\ []((pc = "apply_returned" /\ DropOnObjects) =>
            /\ ret.success <=> all_visible
            /\ ret.success => (~ret.is_none /\ ret.objects = new_objects)
            /\ ~ret.success => ret.is_none)

\* a 'drop' on a base that is not empty has failed at the visibility check
C17_Witness ==
  /\ pc = "apply_returned"
  /\ DropOnObjects
  /\ ~ret.success
  /\ Len(new_objects) = Len(default_config.objects) - 1

\* every object of the returned list is in the renderer, built from its
\* dict, and the dict has the pixel coordinates of that renderer object
Reinstantiated ==
  /\ Len(bpy_objects) = Len(ret.objects)
  /\ \A k \in DOMAIN ret.objects :
        /\ bpy_objects[k] = render_object(properties, heap[ret.objects[k]])
        /\ heap[ret.objects[k]].pixel_coords = get_camera_coords(camera, bpy_objects[k].location)

\* C18: add_random_objects returns a layout only after check_visibility
\* returned True for all objects of that attempt; apply_change reports
\* success only after every object of the variant was instantiated in the
\* renderer, got new pixel coordinates, and check_visibility returned True
\* for the whole variant; a failed check makes apply_change report failure.
C18_VisibilityPassed ==
  /\ pc = "render_default_scene" =>
        /\ all_visible
        /\ checked = bpy_objects
        /\ Len(bpy_objects) = num_objects
        /\ Len(objects) = num_objects
  /\ (pc = "apply_returned" /\ ret.success) =>
        /\ all_visible
        /\ checked = bpy_objects
        /\ Reinstantiated
  /\ (pc = "apply_returned" /\ ~all_visible) => (~ret.success /\ ret.is_none)

\* a variant of two objects passed the visibility check
C18_Witness ==
  /\ pc = "apply_returned"
  /\ ret.success
  /\ all_visible
  /\ Len(checked) = 2

\* a placement attempt starts: the first call or a restart
AttemptStarts == pc = "add_random_objects" /\ objects = << >>

\* C20: when a placement attempt of add_random_objects starts, when a
\* variant begins and after a variant failed, the renderer holds no object
\* of an earlier failed attempt or failed variant.
C20_NoLeftovers ==
  /\ AttemptStarts => bpy_objects = << >>
  /\ pc = "add_random_objects" => Len(bpy_objects) = Len(objects)
  /\ pc = "apply_change" => bpy_objects = << >>
  /\ (pc = "apply_returned" /\ ~ret.success) => bpy_objects = << >>
  /\ (pc \in { "verify", "main" } /\ scene = "semantic" /\ ~semantic_change_success) =>
        bpy_objects = << >>

\* a placement attempt starts after an attempt that had placed objects failed
C20_Witness == AttemptStarts /\ depth > 0 /\ num_objects > 0

\* render_semantic_change has set up camera and lights of a variant
VariantSetUp ==
  /\ scene \in { "nonsemantic", "semantic" }
  /\ pc \in { "apply_change", "add_try", "render_objects", "apply_returned", "verify" }

\* the offset render_default_scene added to the camera of the base scene
BaseCameraOffset == moved(args.camera_jitter, default_config.camera_jitters)

BaseLamps ==
  [ Lamp_Key |-> moved(args.key_light_jitter, default_config.key_light_jitters),
    Lamp_Back |-> moved(args.back_light_jitter, default_config.back_light_jitters),
    Lamp_Fill |-> moved(args.fill_light_jitter, default_config.fill_light_jitters) ]

\* C22, as claimed: for every configuration of the light jitter magnitudes,
\* a magnitude of 0 included, render_semantic_change completes its light
\* setup and gives each of the three lights exactly the offsets the base
\* scene gave it (none where the base applied none).
C22_LightsReplayed ==
  [][ pc = "render_semantic_change" => (pc' = "apply_change" /\ lamps' = BaseLamps') ]_vars

\* a step of add_random_objects that draws a candidate position
CandidateDrawn ==
  /\ pc = "add_random_objects"
  /\ samples' = samples + 1 \/ Len(objects') = Len(objects) + 1

\* a step of add_random_objects that calls add_random_objects again
PlacementRestarted == pc = "add_random_objects" /\ depth' = depth + 1

\* the layout add_random_objects returns: num_objects dicts and renderer
\* objects, the k-th dict, position and renderer object belonging together
LayoutOfOneAttempt ==
  /\ Len(objects) = num_objects
  /\ Len(bpy_objects) = num_objects
  /\ Len(positions) = num_objects
  /\ Len(heap) = num_objects
  /\ \A k \in 1..num_objects :
        /\ objects[k] = k
        /\ heap[k].coords_3d = bpy_objects[k].location
        /\ << positions[k][1], positions[k][2] >>
             = << bpy_objects[k].location[1], bpy_objects[k].location[2] >>

\* C23: in add_random_objects each object gets at most max_retries candidate
\* positions per attempt; when the candidates of an object are exhausted,
\* every renderer object of the attempt is deleted and placement restarts
\* with empty position and object lists; the layout returned has exactly
\* num_objects objects, all of the last attempt.
C23_RestartFromScratch ==
  /\ [][ CandidateDrawn => samples < args.max_retries ]_vars
  /\ [][ (pc = "add_random_objects" /\ size # << >> /\ samples = args.max_retries) =>
            (PlacementRestarted \/ pc' = "crashed") ]_vars
  /\ [][ PlacementRestarted =>
            /\ bpy_objects' = << >>
            /\ objects' = << >>
            /\ positions' = << >>
            /\ heap' = << >>
            /\ pc' = "add_random_objects" ]_vars
  /\ [](pc = "render_default_scene" => LayoutOfOneAttempt)

\* a call that followed a restart has placed both objects of its scene and
\* is about to return them
C23_Witness ==
  /\ pc = "add_random_objects"
  /\ depth > 0
  /\ num_objects = 2
  /\ Len(objects) = 2
  /\ Len(bpy_objects) = 2

\* C24: for every index both variants are derived from the base and
\* attempted independently: whatever the 'same' variant returned, the 'drop'
\* variant is attempted next; each call of apply_change receives the object
\* list of the base scene of this attempt, as the base scene file has it,
\* and an empty renderer scene; the result of the 'same' variant is not
\* changed by the 'drop' variant, and the result of the 'drop' variant is
\* what its own visibility check said.
C24_Independent ==
  /\ [][ (pc = "apply_returned" /\ scene = "nonsemantic") =>
            /\ pc' = "render_semantic_change"
            /\ scene' = "semantic"
            /\ change_type' = sc_change_type
            /\ default_config' = default_config ]_vars
  /\ [][ (scene = "semantic" /\ pc # "main") =>
            nonsemantic_change_success' = nonsemantic_change_success ]_vars
  /\ [](pc = "apply_change" =>
            /\ default_config.objects = [ k \in 1..num_objects |-> k ]
            /\ Deref(heap, default_config.objects) = BaseObjects
            /\ new_objects = << >>
            /\ bpy_objects = << >>)
  /\ [](pc = "verify" => (semantic_change_success <=> all_visible))

\* the 'drop' variant of a base of two objects succeeded after the 'same'
\* variant had failed
C24_Witness ==
  /\ pc = "verify"
  /\ change_type = "drop"
  /\ ~nonsemantic_change_success
  /\ semantic_change_success
  /\ Len(BaseObjects) = 2

\* C25, as claimed, for the shadeless render of the visibility pass: an
\* error raised by the render call never aborts the scene; after every error
\* the render is tried again, until it succeeds.
C25_RenderRetried ==
  [][ pc = "shadeless_render" => pc' \in { "shadeless_render", "shadeless_restore" } ]_vars

\* the object dict obj keeps its distance from the dict other, and its
\* margin along the four horizontal directions of the given direction set
KeepsClearOf(obj, other, directions) ==
  LET dx == obj.coords_3d[1] - other.coords_3d[1]
      dy == obj.coords_3d[2] - other.coords_3d[2]
      s == args.min_dist + radius_of(properties, obj) + radius_of(properties, other)
  IN /\ s >= 0
     /\ dx * dx + dy * dy >= s * s
     /\ \A name \in HorizontalNames :
           LET mg == dx * directions[name][1] + dy * directions[name][2]
           IN ~(0 < mg /\ mg < args.margin * Unit)

\* C26: in a successful 'add' variant the object list is the base objects in
\* their original order followed by exactly one new object, and the new
\* object keeps the distance constraint and the four-direction margin
\* constraint against every base object, the margins measured along the
\* directions of the variant scene.
C26_AddChecked ==
  ChangeSucceeded("add") =>
     /\ Len(ret.objects) = Len(BaseObjects) + 1
     /\ SubSeq(AttributesOf(Variant), 1, Len(BaseObjects)) = AttributesOf(BaseObjects)
     /\ \A k \in DOMAIN BaseObjects :
           KeepsClearOf(Variant[Len(Variant)], BaseObjects[k], scene_struct.directions)

\* an 'add' succeeded next to a base object, in a variant scene whose
\* directions are not those of the base scene
C26_Witness ==
  /\ ChangeSucceeded("add")
  /\ Len(BaseObjects) >= 1
  /\ Len(ret.objects) = Len(BaseObjects) + 1
  /\ scene_struct.directions # default_dump.directions

\* the list apply_change was called with, by value
DefaultObjects == Deref(heap, default_config.objects)

\* the colors a 'color' change may give the object at object_idx when it is
\* that object it picks: its color in the outcomes that leave the others alone
AllowedColors(object_idx) ==
  { o.heap[o.new_objects[object_idx]].color :
      o \in { q \in change_color(heap, default_config.objects, properties) :
                /\ q.pc = "render_objects"
                /\ \A k \in DOMAIN default_config.objects :
                      k # object_idx => q.heap[q.new_objects[k]] = DefaultObjects[k] } }

\* the number of calls of apply_change that have returned a list so far
ChangesDone == (Len(heap) \div num_objects) - 1

\* C27: a 'color' change, applied to a base list or to the output of an
\* earlier 'color' change, excludes only the color the chosen object has at
\* that moment: every other color of the palette is allowed, the object's
\* original base color among them, and the new color differs from the one
\* the object had in the list the call received.
C27_PriorColorOnly ==
  /\ [](pc = "apply_change" =>
            \A object_idx \in DOMAIN default_config.objects :
               AllowedColors(object_idx)
                 = properties.colors \ { DefaultObjects[object_idx].color })
  /\ [][ (pc = "apply_change" /\ pc' = "render_objects") =>
            \E object_idx \in DOMAIN default_config.objects :
               /\ heap'[new_objects'[object_idx]].color # DefaultObjects[object_idx].color
               /\ \A k \in DOMAIN default_config.objects :
                     k # object_idx => heap'[new_objects'[k]] = DefaultObjects[k] ]_vars

\* the second 'color' change in a row has given the only object of the scene
\* its base color again, the palette having three colors
C27_Witness ==
  /\ pc = "apply_returned"
  /\ ret.success
  /\ change_type = "color"
  /\ num_objects = 1
  /\ ChangesDone = 2
  /\ Cardinality(properties.colors) = 3
  /\ Variant[1].color = BaseObjects[1].color
  /\ DefaultObjects[1].color # BaseObjects[1].color

\* the resampling loop of 'color' or 'material' is running
LoopRunning == pc = "resample"

\* the palette, respectively the material table, has two distinct entries
TwoEntries ==
  IF change_type = "color" THEN Cardinality(properties.colors) >= 2
  ELSE Cardinality(properties.materials) >= 2

\* the loop has two distinct names to draw: two color names, respectively
\* the names of two material files
TwoNames == Cardinality(resample_names(change_type, properties)) >= 2

\* the heap as it was when apply_change was called
HeapAtCall == SubSeq(heap, 1, Len(heap) - (Len(new_objects) + 1))

\* the loop of 'add' gives up after max_retries positions and always ends
AddLoopBounded ==
  /\ [](change_type = "add" => samples <= args.max_retries)
  /\ (pc = "add_try") ~> (pc \in { "render_objects", "apply_returned" })

\* C28, as claimed: the resampling loops of 'color' and 'material' end
\* whenever the palette, respectively the material table, holds at least two
\* distinct entries and the random choice is fair; the third loop of
\* apply_change, that of 'add', has a retry bound.
C28_TwoEntriesEnd ==
  /\ (LoopRunning /\ TwoEntries) ~> ~LoopRunning
  /\ AddLoopBounded

\* C28, amended: under a fair random choice the resampling loops end, with
\* one of the results of the 'color' or 'material' change, whenever there
\* are two distinct names to draw (two colors of the palette, respectively
\* two entries of the material table that name different material files);
\* they have no retry bound, so with a single name they never end; the
\* loop of 'add' has the retry bound max_retries and always ends.
C28_ResamplingEnds ==
  /\ (LoopRunning /\ TwoNames) ~> (pc = "render_objects")
  /\ [][ (LoopRunning /\ pc' = "render_objects") =>
            \E o \in apply_change_outcomes(change_type, HeapAtCall,
                                            default_config.objects, properties) :
               /\ o.pc = "render_objects"
               /\ o.heap = heap'
               /\ o.new_objects = new_objects' ]_vars
  /\ [][ (LoopRunning /\ ~TwoNames) => pc' = "resample" ]_vars
  /\ AddLoopBounded

\* the loop of 'material' goes on after a draw of the current material, the
\* table naming two material files
C28_Witness ==
  /\ LoopRunning
  /\ change_type = "material"
  /\ TwoNames
  /\ new_name = resample_current(change_type, properties, heap[Len(heap)])

\* main's while loop has ended
LoopEnded == (pc = "main" /\ ~(i < args.num_images)) \/ pc = "done"

\* the three aggregate lists
AggregateLists ==
  [ default |-> all_scene_paths, semantic |-> all_sc_scene_paths,
    nonsemantic |-> all_nsc_scene_paths ]

\* the three lists have n entries each, and their k-th entries are the scene
\* files of the three categories for the index start_idx + k (k from 0)
Aligned(n) ==
  \A c \in Categories :
     /\ Len(AggregateLists[c]) = n
     /\ \A k \in 0..(n - 1) :
           /\ AggregateLists[c][k + 1].category = c
           /\ AggregateLists[c][k + 1].index = args.start_idx + k
           /\ AggregateLists[c][k + 1].ext = "json"

\* C29: when main's loop has ended, the three aggregate lists hold exactly
\* num_images entries each and are aligned, the k-th entries of the three
\* lists belonging to the image index start_idx + k; a list only ever grows
\* by the scene file of an attempt that is being accepted, a file that
\* exists, so no path of a rejected attempt is in any of them.
C29_ListsAligned ==
  /\ [](LoopEnded => Aligned(args.num_images))
  /\ [](Aligned(i))
  /\ [][ AggregateLists' # AggregateLists =>
            /\ pc = "verify"
            /\ nonsemantic_change_success /\ semantic_change_success
            /\ \A c \in Categories :
                  /\ AggregateLists'[c]
                       = Append(AggregateLists[c], Path(c, i + args.start_idx, "json"))
                  /\ Path(c, i + args.start_idx, "json") \in files' ]_vars
  /\ [][ (pc = "verify" /\ ~(nonsemantic_change_success /\ semantic_change_success)) =>
            AggregateLists' = AggregateLists ]_vars

\* the loop over several indices, not starting at index 0, has just ended
\* with all its entries listed
C29_Witness ==
  /\ pc = "main"
  /\ ~(i < args.num_images)
  /\ args.num_images = NumImages
  /\ args.start_idx > 0
  /\ Len(all_sc_scene_paths) = NumImages
  /\ Len(all_nsc_scene_paths) = NumImages

\* the output files that exist for the index of the current attempt
FilesOfAttempt == { f \in files : f.index = i + args.start_idx }

\* the files a scene of the category would have, blend file included
AnyFileOf(category) ==
  { Path(category, i + args.start_idx, ext) : ext \in { "png", "json", "blend" } }

\* C30: in the reject branch of main, every path passed to os.remove names a
\* file that was written during this attempt, so os.remove never fails, and
\* no file of a failed variant was written.
C30_CleanupExists ==
  /\ [](pc = "verify" =>
            /\ removed_paths(args, i + args.start_idx, nonsemantic_change_success,
                               semantic_change_success) = FilesOfAttempt
            /\ ~nonsemantic_change_success => AnyFileOf("nonsemantic") \cap files = {}
            /\ ~semantic_change_success => AnyFileOf("semantic") \cap files = {})
  /\ [](pc = "main" => FilesOfAttempt = {})
  /\ [][ pc = "verify" => pc' = "main" ]_vars

\* an attempt is about to be rejected whose 'drop' variant succeeded and
\* whose 'same' variant failed, with blend files requested
C30_Witness ==
  /\ pc = "verify"
  /\ ~nonsemantic_change_success
  /\ semantic_change_success
  /\ args.save_blendfiles = 1
  /\ Path("semantic", i + args.start_idx, "blend") \in files


\* the pairs of opposite horizontal directions
OppositePairs == { << "left", "right" >>, << "behind", "front" >> }

\* j is in rel[d][i], with the indices of the record (from 0)
Related(rec, d, k, j) == (j - 1) \in Range(rec.relationships[d][k])

\* opposite directions give converse relations
Converses(rec) ==
  \A p \in OppositePairs :
     \A k \in DOMAIN rec.objects, j \in DOMAIN rec.objects :
        k # j => (Related(rec, p[1], k, j) <=> Related(rec, p[2], j, k))

\* no object is on both sides of another one
MutuallyExclusive(rec) ==
  \A p \in OppositePairs :
     \A k \in DOMAIN rec.objects, j \in DOMAIN rec.objects :
        ~(Related(rec, p[1], k, j) /\ Related(rec, p[2], k, j))

\* C31: in every scene record, for all distinct indices i, j, j is in left[i]
\* if and only if i is in right[j], likewise for behind and front, and j is
\* never in both left[i] and right[i] nor in both front[i] and behind[i].
C31_Converses ==
  /\ default_config.objects # << >> =>
        (Converses(default_dump) /\ MutuallyExclusive(default_dump))
  /\ SceneReturned => (Converses(SceneRecord) /\ MutuallyExclusive(SceneRecord))

\* a scene of two objects was written in which the second object is left of
\* the first one and the first one right of the second
C31_Witness ==
  /\ SceneReturned
  /\ Len(scene_struct.objects) = 2
  /\ Related(SceneRecord, "left", 1, 2)
  /\ Related(SceneRecord, "right", 2, 1)


\* an image key occurs in two of the first n input files
KeyInTwoFiles(n) ==
  \E a \in 1..n, b \in 1..n : a # b /\ DOMAIN input_files[a] \cap DOMAIN input_files[b] # {}

\* the entries of a dict, as pairs
Entries(d) == { << k, d[k] >> : k \in DOMAIN d }

\* the entries of all input files
AllEntries == UNION { Entries(input_files[a]) : a \in DOMAIN input_files }

\* C32: while merge_captions runs, the running count equals the size of the
\* merged map after each merged file; the assertion has failed exactly when
\* a key of the files read so far occurs in two of them, and then the output
\* file is not written; a written output holds exactly the entries of all
\* input files, none of whose keys occurs in two files.
C32_MergeDisjoint ==
  /\ pc = "merge_captions" => count = len(img_to_caps)
  /\ pc = "crashed" <=> KeyInTwoFiles(filename)
  /\ pc = "crashed" => ~output.written
  /\ output.written =>
        /\ ~KeyInTwoFiles(Len(input_files))
        /\ Entries(output.content) = AllEntries

\* two files with entries for different images were merged and written
C32_Witness ==
  /\ pc = "done"
  /\ output.written
  /\ Len(input_files) = 2
  /\ input_files[1] # << >>
  /\ input_files[2] # << >>
  /\ len(output.content) >= 2


\* every key of the caption map ends in '_<digits>.<ext>'
KeysIndexed == \A img \in DOMAIN captions : is_int(index_part(img))

\* the image indices of the keys
KeyIndices == { int(index_part(img)) : img \in DOMAIN captions }

\* the slices have been taken
Sliced == pc \in { "split_assert", "split_dump", "done" }

\* the three lists have the sizes int(0.9 n), int(0.05 n) and the rest,
\* contain every image index between them and are pairwise disjoint
Partitioned ==
  /\ Len(train_idx) = train_len(len(captions))
  /\ Len(val_idx) = val_len(len(captions))
  /\ Len(test_idx) = len(captions) - (Len(train_idx) + Len(val_idx))
  /\ Range(train_idx) \cup Range(val_idx) \cup Range(test_idx) = KeyIndices
  /\ disjoint(train_idx, val_idx)
  /\ disjoint(train_idx, test_idx)
  /\ disjoint(test_idx, val_idx)

\* C33: for every caption map whose keys carry an index, the train, val and
\* test lists have the sizes int(0.9 n), int(0.05 n) and the remainder,
\* together contain every image index and are pairwise disjoint, and no
\* assertion of generate_split fails.
C33_Partition ==
  KeysIndexed => (pc # "crashed" /\ (Sliced => Partitioned))


\* the captions of the first n input files, in the order they are read
RECURSIVE CapsRead(_)
CapsRead(n) == IF n = 0 THEN << >> ELSE CapsRead(n - 1) \o input_files[n]

\* a caption's split differs from that of the first caption
SplitsDiffer(caps) == \E p \in DOMAIN caps : caps[p].split # caps[1].split

\* the caption texts of an image, in the order of caps
TextsOf(caps, img) ==
  LET own == SelectSeq(caps, LAMBDA c : c.image_filename = img)
  IN [ p \in DOMAIN own |-> own[p].question ]

\* C34: collect_captions stops on its assertion only when a caption's split
\* differs from the split of the first caption read, and never writes the
\* output file when one does; an output file that is written maps each image
\* filename of the input to the list of all of its caption texts, in the
\* order the captions were read, and it is written once every file is read.
C34_SingleSplit ==
  LET all == CapsRead(Len(input_files))
  IN /\ pc = "crashed" => (SplitsDiffer(CapsRead(filename)) /\ ~output.written)
     /\ SplitsDiffer(CapsRead(filename)) => pc = "crashed"
     /\ SplitsDiffer(all) => ~output.written
     /\ pc = "done" <=> output.written
     /\ output.written =>
           /\ DOMAIN output.content = { all[p].image_filename : p \in DOMAIN all }
           /\ \A img \in DOMAIN output.content : output.content[img] = TextsOf(all, img)

\* two files of one split were collected, and an image has a caption from
\* each of them
C34_Witness ==
  /\ pc = "done"
  /\ output.written
  /\ Len(input_files) = 2
  /\ \E img \in DOMAIN output.content :
        /\ Len(output.content[img]) = 2
        /\ output.content[img][1] # output.content[img][2]
        /\ \E c \in Range(input_files[1]) : c.image_filename = img
        /\ \E c \in Range(input_files[2]) : c.image_filename = img

=============================================================================
